---- MODULE Spec2Model ----
(***************************************************************************)
(* A model of the LIFX wire codec of theckman/go-lifx: the address codec   *)
(* (util/util.go, protocol/frame_address.go), the Frame, FrameAddress and  *)
(* ProtocolHeader codecs, the Header, the payload registry and the Packet. *)
(*                                                                         *)
(* Representation of Go values:                                            *)
(*   uint8, uint16       a natural number (arithmetic is taken % 2^w)      *)
(*   uint32, uint64,     a "word": the tuple of the value's bytes, most    *)
(*   float32, int16      significant byte first (binary.Write and          *)
(*                       binary.Read move exactly these bytes)             *)
(*   uint64 under shifts a bit vector [0..63 -> {0,1}], bit 0 the least    *)
(*                       significant                                       *)
(*   []byte, [n]byte     a sequence of bytes                               *)
(*   pointer             <<>> for nil, <<obj>> for a pointer to obj        *)
(*   error               a string, "nil" for no error                      *)
(***************************************************************************)
EXTENDS Integers, Sequences, FiniteSets, TLC

VARIABLES
    order,    \* the binary.ByteOrder handed to every call
    p,        \* the value being encoded: a Packet, or a pointer to a Frame
              \* or a FrameAddress
    p0,       \* p as the caller constructed it
    q,        \* the value a decode writes into, of the same kind as p
    q0,       \* q as it was before the decode call
    data,     \* the io.Reader: the bytes not yet consumed
    wire,     \* the bytes the reader was created over
    ret,      \* what the last call returned
    calls,    \* the calls made so far, oldest first
    target,   \* the net.HardwareAddr handed to the address codec
    u64,      \* the uint64 the address codec produced
    hwaddr    \* the net.HardwareAddr the address codec recovered

vars == <<order, p, p0, q, q0, data, wire, ret, calls, target, u64, hwaddr>>

----------------------------------------------------------------------------
(* Pointers and errors *)

Nil == <<>>
Ptr(x) == <<x>>
Deref(ptr) == ptr[1]

NoErr == "nil"

LittleEndian == "LittleEndian"
BigEndian == "BigEndian"
Orders == {LittleEndian, BigEndian}

----------------------------------------------------------------------------
(* Fixed-width arithmetic *)

RECURSIVE Pow2(_)
Pow2(n) == IF n = 0 THEN 1 ELSE 2 * Pow2(n - 1)

RECURSIVE BitOr(_, _)
BitOr(a, b) ==
    IF a = 0 THEN b
    ELSE IF b = 0 THEN a
    ELSE (IF a % 2 = 1 \/ b % 2 = 1 THEN 1 ELSE 0) + 2 * BitOr(a \div 2, b \div 2)

RECURSIVE BitAnd(_, _)
BitAnd(a, b) ==
    IF a = 0 \/ b = 0 THEN 0
    ELSE (IF a % 2 = 1 /\ b % 2 = 1 THEN 1 ELSE 0) + 2 * BitAnd(a \div 2, b \div 2)

Shl8(x, n) == (x * Pow2(n)) % 256
Shl16(x, n) == (x * Pow2(n)) % 65536
Shr(x, n) == x \div Pow2(n)

Reverse(s) == [i \in 1..Len(s) |-> s[Len(s) + 1 - i]]

\* uint16 <-> word
U16Word(v) == <<v \div 256, v % 256>>
WordU16(w) == w[1] * 256 + w[2]

\* uint64 as a bit vector
Bits64 == 0..63
Zero64 == [i \in Bits64 |-> 0]
U64OfByte(b) == [i \in Bits64 |-> IF i < 8 THEN (b \div Pow2(i)) % 2 ELSE 0]
Shl64(x, n) == [i \in Bits64 |-> IF i >= n THEN x[i - n] ELSE 0]
Shr64(x, n) == [i \in Bits64 |-> IF i + n <= 63 THEN x[i + n] ELSE 0]
Or64(x, y) == [i \in Bits64 |-> IF x[i] = 1 \/ y[i] = 1 THEN 1 ELSE 0]
\* byte(x): the low eight bits
ByteOf64(x) ==
    x[0] + 2 * x[1] + 4 * x[2] + 8 * x[3] + 16 * x[4] + 32 * x[5] + 64 * x[6] + 128 * x[7]
\* uint64 bit vector <-> word
U64Word(x) == [k \in 1..8 |-> ByteOf64(Shr64(x, 8 * (8 - k)))]
WordU64(w) == [i \in Bits64 |-> (w[8 - (i \div 8)] \div Pow2(i % 8)) % 2]

----------------------------------------------------------------------------
(* encoding/binary and io.Reader *)

\* binary.Write of one fixed-size value: its bytes in the given order
PutWord(ord, w) == IF ord = BigEndian THEN w ELSE Reverse(w)
\* the value binary.Read builds from the bytes it read
GetWord(ord, bs) == IF ord = BigEndian THEN bs ELSE Reverse(bs)

ReadFull_Mutant(rd, n) ==
    IF Len(rd) >= n
    THEN [err |-> NoErr, val |-> SubSeq(rd, 1, n), rest |-> SubSeq(rd, n + 1, Len(rd))]
    ELSE [err |-> IF Len(rd) = 0 THEN "EOF" ELSE NoErr,
          val |-> [i \in 1..n |-> IF i <= Len(rd) THEN rd[i] ELSE 0], rest |-> <<>>]

\* io.ReadFull of n bytes from the reader rd
ReadFull(rd, n) ==
    IF Len(rd) >= n
    THEN [err |-> NoErr, val |-> SubSeq(rd, 1, n), rest |-> SubSeq(rd, n + 1, Len(rd))]
    ELSE [err |-> IF Len(rd) = 0 THEN "EOF" ELSE "unexpected EOF",
          val |-> <<>>, rest |-> <<>>]

----------------------------------------------------------------------------
(* Address codec: util/util.go and protocol/frame_address.go *)

HardwareAddrToUint64(t) ==
    Or64(Shl64(U64OfByte(t[1]), 55),
    Or64(Shl64(U64OfByte(t[2]), 47),
    Or64(Shl64(U64OfByte(t[3]), 39),
    Or64(Shl64(U64OfByte(t[4]), 31),
    Or64(Shl64(U64OfByte(t[5]), 23),
         Shl64(U64OfByte(t[6]), 15))))))

Uint64ToHardwareAddr_Mutant(x) ==
    << ByteOf64(Shr64(x, 56)), ByteOf64(Shr64(x, 48)), ByteOf64(Shr64(x, 40)),
       ByteOf64(Shr64(x, 32)), ByteOf64(Shr64(x, 24)), ByteOf64(Shr64(x, 16)) >>

Uint64ToHardwareAddr(x) ==
    << ByteOf64(Shr64(x, 55)), ByteOf64(Shr64(x, 47)), ByteOf64(Shr64(x, 39)),
       ByteOf64(Shr64(x, 31)), ByteOf64(Shr64(x, 23)), ByteOf64(Shr64(x, 15)) >>

targetSliceToUint(t) ==
    Or64(Shl64(U64OfByte(t[1]), 55),
    Or64(Shl64(U64OfByte(t[2]), 47),
    Or64(Shl64(U64OfByte(t[3]), 39),
    Or64(Shl64(U64OfByte(t[4]), 31),
    Or64(Shl64(U64OfByte(t[5]), 23),
         Shl64(U64OfByte(t[6]), 15))))))

uintToTargetSlice_Mutant(x) ==
    << ByteOf64(Shr64(x, 55)), ByteOf64(Shr64(x, 47)), ByteOf64(Shr64(x, 39)),
       ByteOf64(Shr64(x, 31)), ByteOf64(Shr64(x, 23)), ByteOf64(Shr64(x, 15)),
       ByteOf64(Shr64(x, 7)), ByteOf64(x) >>

uintToTargetSlice(x) ==
    << ByteOf64(Shr64(x, 55)), ByteOf64(Shr64(x, 47)), ByteOf64(Shr64(x, 39)),
       ByteOf64(Shr64(x, 31)), ByteOf64(Shr64(x, 23)), ByteOf64(Shr64(x, 15)) >>

----------------------------------------------------------------------------
(* Frame: protocol/frame.go *)

MaxFrameOrigin_Mutant == Shr(255, 5)

MaxFrameOrigin == Shr(255, 6)

MaxFrameProtocol == Shr(65535, 4)

FrameByteSize == 8

ErrFrameProtocolOverflow == "ErrFrameProtocolOverflow"
ErrFrameOriginOverflow == "ErrFrameOriginOverflow"

\* &Frame{}
ZeroFrame ==
    [Size |-> 0, Origin |-> 0, Tagged |-> FALSE, Addressable |-> FALSE,
     Protocol |-> 0, Source |-> <<0, 0, 0, 0>>]

Frame_mid_Mutant(frame) ==
    LET m0 == BitOr(Shl16(frame.Origin, 14), Shr(Shl16(frame.Protocol, 4), 4))
        m1 == IF frame.Tagged THEN BitOr(m0, Shl16(1, 12)) ELSE m0
    IN  IF frame.Addressable THEN BitOr(m1, Shl16(1, 13)) ELSE m1

\* the packed 16-bit word of Frame.MarshalPacket
Frame_mid(frame) ==
    LET m0 == BitOr(Shl16(frame.Origin, 14), Shr(Shl16(frame.Protocol, 4), 4))
        m1 == IF frame.Tagged THEN BitOr(m0, Shl16(1, 13)) ELSE m0
    IN  IF frame.Addressable THEN BitOr(m1, Shl16(1, 12)) ELSE m1

Frame_MarshalPacket(frame, ord) ==
    IF frame.Origin > MaxFrameOrigin
    THEN [bytes |-> <<>>, err |-> ErrFrameOriginOverflow]
    ELSE IF frame.Protocol > MaxFrameProtocol
    THEN [bytes |-> <<>>, err |-> ErrFrameProtocolOverflow]
    ELSE [bytes |-> PutWord(ord, U16Word(frame.Size))
                    \o PutWord(ord, U16Word(Frame_mid(frame)))
                    \o PutWord(ord, frame.Source),
          err |-> NoErr]

\* the four assignments that unpack the 16-bit word in Frame.UnmarshalPacket
Frame_unpack_Mutant(frame, w) ==
    [frame EXCEPT !.Origin = Shr(w, 14) % 256,
                  !.Tagged = (BitAnd(Shr(w, 13), 1) = 1),
                  !.Addressable = (BitAnd(Shr(w, 13), 1) = 1),
                  !.Protocol = Shr(Shl16(w, 4), 4)]

Frame_unpack(frame, w) ==
    [frame EXCEPT !.Origin = Shr(w, 14) % 256,
                  !.Tagged = (BitAnd(Shr(w, 13), 1) = 1),
                  !.Addressable = (BitAnd(Shr(w, 12), 1) = 1),
                  !.Protocol = Shr(Shl16(w, 4), 4)]

\* fptr is the receiver; a nil receiver decodes into a Frame the caller
\* never sees.  obj is the receiver as the caller sees it afterwards.
Frame_UnmarshalPacket(fptr, rd, ord) ==
    LET frame == IF fptr = Nil THEN ZeroFrame ELSE Deref(fptr)
        out(f) == IF fptr = Nil THEN Nil ELSE Ptr(f)
        r1 == ReadFull(rd, 2)
        f1 == [frame EXCEPT !.Size = WordU16(GetWord(ord, r1.val))]
        r2 == ReadFull(r1.rest, 2)
        f2 == Frame_unpack(f1, WordU16(GetWord(ord, r2.val)))
        r3 == ReadFull(r2.rest, 4)
        f3 == [f2 EXCEPT !.Source = GetWord(ord, r3.val)]
    IN  IF r1.err # NoErr THEN [obj |-> out(frame), err |-> r1.err, rest |-> r1.rest]
        ELSE IF r2.err # NoErr THEN [obj |-> out(f1), err |-> r2.err, rest |-> r2.rest]
        ELSE IF r3.err # NoErr THEN [obj |-> out(f2), err |-> r3.err, rest |-> r3.rest]
        ELSE [obj |-> out(f3), err |-> NoErr, rest |-> r3.rest]

----------------------------------------------------------------------------
(* FrameAddress: protocol/frame_address.go *)

MaxFrameAddressReserved_Mutant == Shr(255, 1)

MaxFrameAddressReserved == Shr(255, 2)

FrameAddressByteSize == 16

ErrFrameAddressReservedOverflow == "ErrFrameAddressReservedOverflow"
ErrFrameAddressTargetMalformed == "ErrFrameAddressTargetMalformed"

\* &FrameAddress{}
ZeroFrameAddress ==
    [Target |-> <<>>, ReservedBlock |-> <<0, 0, 0, 0, 0, 0>>, Reserved |-> 0,
     AckRequired |-> FALSE, ResRequired |-> FALSE, Sequence |-> 0]

FrameAddress_u64_Mutant(fra) ==
    IF Len(fra.Target) = 6
    THEN targetSliceToUint(fra.Target)
    ELSE Zero64

\* the uint64 written for the target
FrameAddress_u64(fra) ==
    IF Len(fra.Target) = 6
       \/ (Len(fra.Target) = 8 /\ fra.Target[7] = 0 /\ fra.Target[8] = 0)
    THEN targetSliceToUint(fra.Target)
    ELSE Zero64

\* the packed byte Reserved | AckRequired | ResRequired
FrameAddress_u8(fra) ==
    LET ack == IF fra.AckRequired THEN 1 ELSE 0
        res == IF fra.ResRequired THEN 1 ELSE 0
    IN  BitOr(BitOr(Shl8(fra.Reserved, 2), Shl8(ack, 1)), res)

FrameAddress_MarshalPacket(fra, ord) ==
    IF fra.Reserved > MaxFrameAddressReserved
    THEN [bytes |-> <<>>, err |-> ErrFrameAddressReservedOverflow]
    ELSE [bytes |-> PutWord(ord, U64Word(FrameAddress_u64(fra)))
                    \o fra.ReservedBlock
                    \o <<FrameAddress_u8(fra)>>
                    \o <<fra.Sequence>>,
          err |-> NoErr]

\* a loop of one-byte binary.Read calls into the array arr
ReadArray(arr, rd) ==
    LET n == Len(arr)
        k == IF Len(rd) < n THEN Len(rd) ELSE n
    IN  [val |-> [i \in 1..n |-> IF i <= k THEN rd[i] ELSE arr[i]],
         err |-> IF k < n THEN "EOF" ELSE NoErr,
         rest |-> SubSeq(rd, k + 1, Len(rd))]

\* the three assignments that unpack the byte in FrameAddress.UnmarshalPacket
FrameAddress_unpack_Mutant(fra, b) ==
    [fra EXCEPT !.Reserved = Shr(b, 2),
                !.AckRequired = (BitAnd(b, 1) = 1),
                !.ResRequired = (BitAnd(Shr(b, 1), 1) = 1)]

FrameAddress_unpack(fra, b) ==
    [fra EXCEPT !.Reserved = Shr(b, 2),
                !.AckRequired = (BitAnd(Shr(b, 1), 1) = 1),
                !.ResRequired = (BitAnd(b, 1) = 1)]

\* a nil receiver panics at the first assignment through it, after the
\* uint64 has been read
FrameAddress_UnmarshalPacket(faptr, rd, ord) ==
    LET r1 == ReadFull(rd, 8)
        fra == Deref(faptr)
        a1 == [fra EXCEPT !.Target = uintToTargetSlice(WordU64(GetWord(ord, r1.val)))]
        r2 == ReadArray(a1.ReservedBlock, r1.rest)
        a2 == [a1 EXCEPT !.ReservedBlock = r2.val]
        r3 == ReadFull(r2.rest, 1)
        a3 == FrameAddress_unpack(a2, r3.val[1])
        r4 == ReadFull(r3.rest, 1)
        a4 == [a3 EXCEPT !.Sequence = r4.val[1]]
    IN  IF r1.err # NoErr THEN [obj |-> faptr, err |-> r1.err, rest |-> r1.rest]
        ELSE IF faptr = Nil THEN [obj |-> Nil, err |-> "panic", rest |-> r1.rest]
        ELSE IF r2.err # NoErr THEN [obj |-> Ptr(a2), err |-> r2.err, rest |-> r2.rest]
        ELSE IF r3.err # NoErr THEN [obj |-> Ptr(a2), err |-> r3.err, rest |-> r3.rest]
        ELSE IF r4.err # NoErr THEN [obj |-> Ptr(a3), err |-> r4.err, rest |-> r4.rest]
        ELSE [obj |-> Ptr(a4), err |-> NoErr, rest |-> r4.rest]

----------------------------------------------------------------------------
(* ProtocolHeader: protocol/protocol.go *)

ProtocolHeaderByteSize == 12

\* &ProtocolHeader{}
ZeroProtocolHeader ==
    [Reserved |-> <<0, 0, 0, 0, 0, 0, 0, 0>>, Type |-> 0, ReservedEnd |-> 0]

ProtocolHeader_MarshalPacket_Mutant(ph, ord) ==
    [bytes |-> PutWord(ord, ph.Reserved)
               \o PutWord(ord, U16Word(ph.ReservedEnd))
               \o PutWord(ord, U16Word(ph.Type)),
     err |-> NoErr]

ProtocolHeader_MarshalPacket(ph, ord) ==
    [bytes |-> PutWord(ord, ph.Reserved)
               \o PutWord(ord, U16Word(ph.Type))
               \o PutWord(ord, U16Word(ph.ReservedEnd)),
     err |-> NoErr]

\* a nil receiver decodes into a ProtocolHeader the caller never sees
ProtocolHeader_UnmarshalPacket(phptr, rd, ord) ==
    LET ph == IF phptr = Nil THEN ZeroProtocolHeader ELSE Deref(phptr)
        out(x) == IF phptr = Nil THEN Nil ELSE Ptr(x)
        r1 == ReadFull(rd, 8)
        h1 == [ph EXCEPT !.Reserved = GetWord(ord, r1.val)]
        r2 == ReadFull(r1.rest, 2)
        h2 == [h1 EXCEPT !.Type = WordU16(GetWord(ord, r2.val))]
        r3 == ReadFull(r2.rest, 2)
        h3 == [h2 EXCEPT !.ReservedEnd = WordU16(GetWord(ord, r3.val))]
    IN  IF r1.err # NoErr THEN [obj |-> out(ph), err |-> r1.err, rest |-> r1.rest]
        ELSE IF r2.err # NoErr THEN [obj |-> out(h1), err |-> r2.err, rest |-> r2.rest]
        ELSE IF r3.err # NoErr THEN [obj |-> out(h2), err |-> r3.err, rest |-> r3.rest]
        ELSE [obj |-> out(h3), err |-> NoErr, rest |-> r3.rest]

----------------------------------------------------------------------------
(* Header: protocol/header.go *)

HeaderByteSize == FrameByteSize + FrameAddressByteSize + ProtocolHeaderByteSize

ErrHeaderNil == "none of the fields in the struct can be nil"

Header_MarshalPacket_Mutant(h, ord) ==
    IF h.Frame = Nil \/ h.FrameAddress = Nil \/ h.ProtocolHeader = Nil
    THEN [bytes |-> <<>>, err |-> ErrHeaderNil]
    ELSE LET frame == Frame_MarshalPacket(Deref(h.Frame), ord)
             frameAddress == FrameAddress_MarshalPacket(Deref(h.FrameAddress), ord)
             protocolHeader == ProtocolHeader_MarshalPacket(Deref(h.ProtocolHeader), ord)
         IN  IF frameAddress.err # NoErr THEN [bytes |-> <<>>, err |-> frameAddress.err]
             ELSE IF frame.err # NoErr THEN [bytes |-> <<>>, err |-> frame.err]
             ELSE IF protocolHeader.err # NoErr THEN [bytes |-> <<>>, err |-> protocolHeader.err]
             ELSE [bytes |-> frame.bytes \o frameAddress.bytes \o protocolHeader.bytes,
                   err |-> NoErr]

\* h is a Header: [Frame, FrameAddress, ProtocolHeader], each a pointer
Header_MarshalPacket(h, ord) ==
    IF h.Frame = Nil \/ h.FrameAddress = Nil \/ h.ProtocolHeader = Nil
    THEN [bytes |-> <<>>, err |-> ErrHeaderNil]
    ELSE LET frame == Frame_MarshalPacket(Deref(h.Frame), ord)
             frameAddress == FrameAddress_MarshalPacket(Deref(h.FrameAddress), ord)
             protocolHeader == ProtocolHeader_MarshalPacket(Deref(h.ProtocolHeader), ord)
         IN  IF frame.err # NoErr THEN [bytes |-> <<>>, err |-> frame.err]
             ELSE IF frameAddress.err # NoErr THEN [bytes |-> <<>>, err |-> frameAddress.err]
             ELSE IF protocolHeader.err # NoErr THEN [bytes |-> <<>>, err |-> protocolHeader.err]
             ELSE [bytes |-> frame.bytes \o frameAddress.bytes \o protocolHeader.bytes,
                   err |-> NoErr]

Header_UnmarshalPacket(h, rd, ord) ==
    LET step3(h2, r3) ==
            [obj |-> [h2 EXCEPT !.ProtocolHeader = r3.obj], err |-> r3.err, rest |-> r3.rest]
        step2(h1, r2) ==
            IF r2.err # NoErr
            THEN [obj |-> [h1 EXCEPT !.FrameAddress = r2.obj], err |-> r2.err, rest |-> r2.rest]
            ELSE step3([h1 EXCEPT !.FrameAddress = r2.obj],
                       ProtocolHeader_UnmarshalPacket(h.ProtocolHeader, r2.rest, ord))
        step1(r1) ==
            IF r1.err # NoErr
            THEN [obj |-> [h EXCEPT !.Frame = r1.obj], err |-> r1.err, rest |-> r1.rest]
            ELSE step2([h EXCEPT !.Frame = r1.obj],
                       FrameAddress_UnmarshalPacket(h.FrameAddress, r1.rest, ord))
    IN  step1(Frame_UnmarshalPacket(h.Frame, rd, ord))

----------------------------------------------------------------------------
(* Message-type codes: protocol/protocol.go *)

DeviceGetService == 2
DeviceStateService == 3
DeviceGetHostInfo == 12
DeviceStateHostInfo == 13
DeviceGetHostFirmware == 14
DeviceStateHostFirmware == 15
DeviceGetWifiInfo == 16
DeviceStateWifiInfo == 17
DeviceGetWifiFirmware == 18
DeviceStateWifiFirmware == 19
DeviceGetPower == 20
DeviceSetPower == 21
DeviceStatePower == 22
DeviceGetLabel == 23
DeviceSetLabel == 24
DeviceStateLabel == 25
DeviceGetVersion == 32
DeviceStateVersion == 33
DeviceGetInfo == 34
DeviceStateInfo == 35
DeviceAcknowledgement == 45
DeviceGetLocation == 48
DeviceStateLocation == 50
DeviceGetGroup == 51
DeviceStateGroup == 53
DeviceEchoRequest == 58
DeviceEchoResponse == 59
LightGet == 101
LightSetColor == 102
LightState == 107
LightGetPower == 116
LightSetPower == 117
LightStatePower == 118

\* the name of a message-type code
phTypetoString(t) ==
    CASE t = DeviceGetService -> "lifxprotocol.DeviceGetService"
      [] t = DeviceStateService -> "lifxprotocol.DeviceStateService"
      [] t = DeviceGetHostInfo -> "lifxprotocol.DeviceGetHostInfo"
      [] t = DeviceStateHostInfo -> "lifxprotocol.DeviceStateHostInfo"
      [] t = DeviceGetHostFirmware -> "lifxprotocol.DeviceGetHostFirmware"
      [] t = DeviceStateHostFirmware -> "lifxprotocol.DeviceStateHostFirmware"
      [] t = DeviceGetWifiInfo -> "lifxprotocol.DeviceGetWifiInfo"
      [] t = DeviceStateWifiInfo -> "lifxprotocol.DeviceStateWifiInfo"
      [] t = DeviceGetWifiFirmware -> "lifxprotocol.DeviceGetWifiFirmware"
      [] t = DeviceStateWifiFirmware -> "lifxprotocol.DeviceStateWifiFirmware"
      [] t = DeviceGetPower -> "lifxprotocol.DeviceGetPower"
      [] t = DeviceSetPower -> "lifxprotocol.DeviceSetPower"
      [] t = DeviceStatePower -> "lifxprotocol.DeviceStatePower"
      [] t = DeviceGetLabel -> "lifxprotocol.DeviceGetLabel"
      [] t = DeviceSetLabel -> "lifxprotocol.DeviceSetLabel"
      [] t = DeviceStateLabel -> "lifxprotocol.DeviceStateLabel"
      [] t = DeviceGetVersion -> "lifxprotocol.DeviceGetVersion"
      [] t = DeviceStateVersion -> "lifxprotocol.DeviceStateVersion"
      [] t = DeviceGetInfo -> "lifxprotocol.DeviceGetInfo"
      [] t = DeviceStateInfo -> "lifxprotocol.DeviceStateInfo"
      [] t = DeviceAcknowledgement -> "lifxprotocol.DeviceAcknowledgement"
      [] t = DeviceGetLocation -> "lifxprotocol.DeviceGetLocation"
      [] t = DeviceStateLocation -> "lifxprotocol.DeviceStateLocation"
      [] t = DeviceGetGroup -> "lifxprotocol.DeviceGetGroup"
      [] t = DeviceStateGroup -> "lifxprotocol.DeviceStateGroup"
      [] t = DeviceEchoRequest -> "lifxprotocol.DeviceEchoRequest"
      [] t = DeviceEchoResponse -> "lifxprotocol.DeviceEchoResponse"
      [] t = LightGet -> "lifxprotocol.LightGet"
      [] t = LightSetColor -> "lifxprotocol.LightSetColor"
      [] t = LightState -> "lifxprotocol.LightState"
      [] t = LightGetPower -> "lifxprotocol.LightGetPower"
      [] t = LightSetPower -> "lifxprotocol.LightSetPower"
      [] t = LightStatePower -> "lifxprotocol.LightStatePower"
      [] OTHER -> "UnknownType"

----------------------------------------------------------------------------
(* Payloads: protocol/payloads/device.go and protocol/payloads/lights.go   *)
(* A payload is a record: its Go type in the field "type", then the        *)
(* struct's fields.  Integer and float fields are words, arrays are byte   *)
(* sequences.                                                              *)

ZeroBytes(n) == [i \in 1..n |-> 0]

\* a fixed-size field: a word of n bytes, or an array of n bytes
FW(nm, n) == [name |-> nm, n |-> n, array |-> FALSE]
FA(nm, n) == [name |-> nm, n |-> n, array |-> TRUE]

\* the fields each payload struct writes and reads, in order
PayloadFields(type) ==
    CASE type = "DeviceStateService" -> << FW("Service", 1), FW("Port", 4) >>
      [] type = "DeviceStateHostInfo" ->
            << FW("Signal", 4), FW("Tx", 4), FW("Rx", 4), FW("Reserved", 2) >>
      [] type = "DeviceStateHostFirmware" ->
            << FW("Build", 8), FW("Reserved", 8), FW("Version", 4) >>
      [] type = "DeviceStateWifiInfo" ->
            << FW("Signal", 4), FW("Tx", 4), FW("Rx", 4), FW("Reserved", 2) >>
      [] type = "DeviceStateWifiFirmware" ->
            << FW("Build", 8), FW("Reserved", 8), FW("Version", 4) >>
      [] type = "DeviceStatePower" -> << FW("Level", 2) >>
      [] type = "DeviceStateLabel" -> << FA("Label", 32) >>
      [] type = "DeviceStateVersion" ->
            << FW("Vendor", 4), FW("Product", 4), FW("Version", 4) >>
      [] type = "DeviceStateInfo" ->
            << FW("Time", 8), FW("Uptime", 8), FW("Downtime", 8) >>
      [] type = "DeviceStateLocation" ->
            << FA("Location", 16), FA("Label", 32), FW("UpdatedAt", 8) >>
      [] type = "DeviceStateGroup" ->
            << FA("Group", 16), FA("Label", 32), FW("UpdatedAt", 8) >>
      [] type = "DeviceEcho" -> << FA("Payload", 64) >>
      [] type = "LightHSBK" ->
            << FW("Hue", 2), FW("Saturation", 2), FW("Brightness", 2), FW("Kelvin", 2) >>
      [] type = "LightStatePower" -> << FW("Level", 2) >>

\* the zero value of a struct with the given fields
RECURSIVE ZeroFields(_, _, _)
ZeroFields(x, fields, i) ==
    IF i > Len(fields) THEN x
    ELSE ZeroFields([nm \in DOMAIN x \cup {fields[i].name} |->
                        IF nm = fields[i].name THEN ZeroBytes(fields[i].n) ELSE x[nm]],
                    fields, i + 1)

\* a sequence of binary.Write calls, one per field (per element for arrays)
RECURSIVE WriteFields(_, _, _, _)
WriteFields(x, fields, ord, i) ==
    IF i > Len(fields) THEN <<>>
    ELSE (IF fields[i].array THEN x[fields[i].name] ELSE PutWord(ord, x[fields[i].name]))
         \o WriteFields(x, fields, ord, i + 1)

\* a sequence of binary.Read calls, one per field (per element for arrays),
\* returning at the first error with the fields already read assigned
RECURSIVE ReadFields(_, _, _, _, _)
ReadFields(x, fields, rd, ord, i) ==
    IF i > Len(fields) THEN [obj |-> x, err |-> NoErr, rest |-> rd]
    ELSE LET f == fields[i]
             r == IF f.array THEN ReadArray(x[f.name], rd) ELSE ReadFull(rd, f.n)
             v == IF f.array THEN r.val ELSE GetWord(ord, r.val)
         IN  IF r.err # NoErr
             THEN [obj |-> IF f.array THEN [x EXCEPT ![f.name] = v] ELSE x,
                   err |-> r.err, rest |-> r.rest]
             ELSE ReadFields([x EXCEPT ![f.name] = v], fields, r.rest, ord, i + 1)

\* time.Duration: an int64 count of nanoseconds, held as sign and magnitude
\* neg, and magnitude (hi * 65536 + lo) milliseconds + ns nanoseconds
ZeroDuration == [neg |-> FALSE, hi |-> 0, lo |-> 0, ns |-> 0]

\* lightMaxDuration = time.Millisecond * time.Duration(^uint32(0))
lightMaxDuration == [neg |-> FALSE, hi |-> 65535, lo |-> 65535, ns |-> 0]

DurationIsZero(d) == d.hi = 0 /\ d.lo = 0 /\ d.ns = 0

\* a > b for two durations
DurationGreater(a, b) ==
    LET magGreater(x, y) ==
            \/ x.hi > y.hi
            \/ (x.hi = y.hi /\ x.lo > y.lo)
            \/ (x.hi = y.hi /\ x.lo = y.lo /\ x.ns > y.ns)
        aNeg == a.neg /\ ~DurationIsZero(a)
        bNeg == b.neg /\ ~DurationIsZero(b)
    IN  IF aNeg /\ ~bNeg THEN FALSE
        ELSE IF ~aNeg /\ bNeg THEN TRUE
        ELSE IF aNeg THEN magGreater(b, a)
        ELSE magGreater(a, b)

durToMs_Mutant(dur) == U16Word(dur.lo) \o U16Word(dur.hi % 65536)

\* uint32(dur / time.Millisecond): the quotient truncates toward zero and
\* the conversion keeps the low 32 bits of the two's complement
durToMs(dur) ==
    LET h == dur.hi % 65536
        l == dur.lo
    IN  IF ~dur.neg \/ (h = 0 /\ l = 0)
        THEN U16Word(h) \o U16Word(l)
        ELSE IF l = 0
        THEN U16Word(65536 - h) \o U16Word(0)
        ELSE U16Word(65535 - h) \o U16Word(65536 - l)

\* time.Duration(ms) * time.Millisecond
msToDur(ms) ==
    [neg |-> FALSE, hi |-> WordU16(SubSeq(ms, 1, 2)), lo |-> WordU16(SubSeq(ms, 3, 4)),
     ns |-> 0]

ErrLightColorNotSet == "ErrLightColorNotSet"

\* the zero value a registry entry constructs
ZeroPayload(type) ==
    CASE type = "LightSetColor" ->
            [type |-> type, Reserved |-> <<0>>, Color |-> Nil, Duration |-> ZeroDuration]
      [] type = "LightState" ->
            [type |-> type, Color |-> Nil, Reserved |-> <<0, 0>>, Power |-> <<0, 0>>,
             Label |-> ZeroBytes(32), ReservedB |-> ZeroBytes(8)]
      [] type = "LightSetPower" ->
            [type |-> type, Level |-> <<0, 0>>, Duration |-> ZeroDuration]
      [] OTHER -> ZeroFields([type |-> type], PayloadFields(type), 1)

LightHSBK_MarshalPacket(hsbk, ord) ==
    [bytes |-> WriteFields(hsbk, PayloadFields("LightHSBK"), ord, 1), err |-> NoErr]

LightHSBK_UnmarshalPacket(hsbk, rd, ord) ==
    ReadFields(hsbk, PayloadFields("LightHSBK"), rd, ord, 1)

LightSetColor_MarshalPacket(lsc, ord) ==
    IF lsc.Color = Nil
    THEN [bytes |-> <<>>, err |-> ErrLightColorNotSet]
    ELSE IF DurationGreater(lsc.Duration, lightMaxDuration)
    THEN [bytes |-> <<>>, err |-> "LightSetColor.Duration would overflow uint32"]
    ELSE [bytes |-> PutWord(ord, lsc.Reserved)
                    \o LightHSBK_MarshalPacket(Deref(lsc.Color), ord).bytes
                    \o PutWord(ord, durToMs(lsc.Duration)),
          err |-> NoErr]

LightSetColor_UnmarshalPacket(lsc, rd, ord) ==
    LET r1 == ReadFull(rd, 1)
        l1 == [lsc EXCEPT !.Reserved = GetWord(ord, r1.val)]
        l2 == IF l1.Color = Nil
              THEN [l1 EXCEPT !.Color = Ptr(ZeroPayload("LightHSBK"))] ELSE l1
        r2 == LightHSBK_UnmarshalPacket(Deref(l2.Color), r1.rest, ord)
        l3 == [l2 EXCEPT !.Color = Ptr(r2.obj)]
        r3 == ReadFull(r2.rest, 4)
        l4 == [l3 EXCEPT !.Duration = msToDur(GetWord(ord, r3.val))]
    IN  IF r1.err # NoErr THEN [obj |-> lsc, err |-> r1.err, rest |-> r1.rest]
        ELSE IF r2.err # NoErr THEN [obj |-> l3, err |-> r2.err, rest |-> r2.rest]
        ELSE IF r3.err # NoErr THEN [obj |-> l3, err |-> r3.err, rest |-> r3.rest]
        ELSE [obj |-> l4, err |-> NoErr, rest |-> r3.rest]

LightStateTail == << FW("Reserved", 2), FW("Power", 2), FA("Label", 32), FW("ReservedB", 8) >>

LightState_MarshalPacket(ls, ord) ==
    IF ls.Color = Nil
    THEN [bytes |-> <<>>, err |-> ErrLightColorNotSet]
    ELSE [bytes |-> LightHSBK_MarshalPacket(Deref(ls.Color), ord).bytes
                    \o WriteFields(ls, LightStateTail, ord, 1),
          err |-> NoErr]

LightState_UnmarshalPacket(ls, rd, ord) ==
    LET l1 == IF ls.Color = Nil
              THEN [ls EXCEPT !.Color = Ptr(ZeroPayload("LightHSBK"))] ELSE ls
        r1 == LightHSBK_UnmarshalPacket(Deref(l1.Color), rd, ord)
        l2 == [l1 EXCEPT !.Color = Ptr(r1.obj)]
    IN  IF r1.err # NoErr THEN [obj |-> l2, err |-> r1.err, rest |-> r1.rest]
        ELSE ReadFields(l2, LightStateTail, r1.rest, ord, 1)

LightSetPower_MarshalPacket(lsp, ord) ==
    IF DurationGreater(lsp.Duration, lightMaxDuration)
    THEN [bytes |-> <<>>, err |-> "LightSetPower.Duration would overflow uint32"]
    ELSE [bytes |-> PutWord(ord, lsp.Level) \o PutWord(ord, durToMs(lsp.Duration)),
          err |-> NoErr]

LightSetPower_UnmarshalPacket(lsp, rd, ord) ==
    LET r1 == ReadFull(rd, 2)
        l1 == [lsp EXCEPT !.Level = GetWord(ord, r1.val)]
        r2 == ReadFull(r1.rest, 4)
        l2 == [l1 EXCEPT !.Duration = msToDur(GetWord(ord, r2.val))]
    IN  IF r1.err # NoErr THEN [obj |-> lsp, err |-> r1.err, rest |-> r1.rest]
        ELSE IF r2.err # NoErr THEN [obj |-> l1, err |-> r2.err, rest |-> r2.rest]
        ELSE [obj |-> l2, err |-> NoErr, rest |-> r2.rest]

\* p.Payload.MarshalPacket(order): the method of the payload's dynamic type.
\* A "PacketComponent" is an implementation of the interface outside this
\* package: its MarshalPacket returns len zero bytes and the error it holds.
Payload_MarshalPacket(pl, ord) ==
    CASE pl.type = "LightSetColor" -> LightSetColor_MarshalPacket(pl, ord)
      [] pl.type = "LightState" -> LightState_MarshalPacket(pl, ord)
      [] pl.type = "LightSetPower" -> LightSetPower_MarshalPacket(pl, ord)
      [] pl.type = "PacketComponent" -> [bytes |-> ZeroBytes(pl.len), err |-> pl.err]
      [] OTHER -> [bytes |-> WriteFields(pl, PayloadFields(pl.type), ord, 1), err |-> NoErr]

\* pc.UnmarshalPacket(data, order): the method of the payload's dynamic type
Payload_UnmarshalPacket(pl, rd, ord) ==
    CASE pl.type = "LightSetColor" -> LightSetColor_UnmarshalPacket(pl, rd, ord)
      [] pl.type = "LightState" -> LightState_UnmarshalPacket(pl, rd, ord)
      [] pl.type = "LightSetPower" -> LightSetPower_UnmarshalPacket(pl, rd, ord)
      [] OTHER -> ReadFields(pl, PayloadFields(pl.type), rd, ord, 1)

----------------------------------------------------------------------------
(* Packet and the payload registry: protocol/protocol.go *)

maxUint16_Mutant == 65535 - 1

maxUint16 == 65535

ErrPacketHeaderNil == "the Header field cannot be nil"
ErrPacketPayloadNil == "the Payload field cannot be nil"
ErrPacketSizeOverflow == "size of packet would overflow Packet.Header.Frame.Size"
ErrProtocolHeaderNil == "the ProtocolHeader cannot be nil"
ErrUnknownMessageType == "unknown message type"
Panic == "panic: nil pointer dereference"

\* &Packet{}
ZeroPacket == [Header |-> Nil, Payload |-> Nil]

\* the total byte size: tbs := HeaderByteSize + len(payload)
Packet_tbs_Mutant(payload) == FrameByteSize + Len(payload)

Packet_tbs(payload) == HeaderByteSize + Len(payload)

\* p.Header.Frame.Size = uint16(tbs)
Packet_sized_Mutant(h, tbs) ==
    [h EXCEPT !.Frame = Ptr([Deref(h.Frame) EXCEPT !.Size = tbs % 65536,
                                                   !.Source = <<0, 0, 0, 0>>])]

Packet_sized(h, tbs) ==
    [h EXCEPT !.Frame = Ptr([Deref(h.Frame) EXCEPT !.Size = tbs % 65536])]

Packet_MarshalPacket_Mutant(pk, ord) ==
    IF pk.Header = Nil
    THEN [bytes |-> <<>>, err |-> ErrPacketHeaderNil, obj |-> pk]
    ELSE IF pk.Payload = Nil
    THEN [bytes |-> <<>>, err |-> ErrPacketPayloadNil, obj |-> pk]
    ELSE LET payload == Payload_MarshalPacket(Deref(pk.Payload), ord)
             tbs == Packet_tbs(payload.bytes)
             h == Deref(pk.Header)
             sized == Packet_sized(h, tbs)
             pk1 == [pk EXCEPT !.Header = Ptr(sized)]
             header == Header_MarshalPacket(sized, ord)
         IN  IF payload.err # NoErr
             THEN [bytes |-> <<>>, err |-> payload.err, obj |-> pk]
             ELSE IF h.Frame = Nil
             THEN [bytes |-> <<>>, err |-> Panic, obj |-> pk]
             ELSE IF header.err # NoErr
             THEN [bytes |-> <<>>, err |-> header.err, obj |-> pk1]
             ELSE IF tbs > maxUint16
             THEN [bytes |-> <<>>, err |-> ErrPacketSizeOverflow, obj |-> pk1]
             ELSE [bytes |-> header.bytes \o payload.bytes, err |-> NoErr, obj |-> pk1]

\* pk is the Packet; obj is the Packet after the call
Packet_MarshalPacket(pk, ord) ==
    IF pk.Header = Nil
    THEN [bytes |-> <<>>, err |-> ErrPacketHeaderNil, obj |-> pk]
    ELSE IF pk.Payload = Nil
    THEN [bytes |-> <<>>, err |-> ErrPacketPayloadNil, obj |-> pk]
    ELSE LET payload == Payload_MarshalPacket(Deref(pk.Payload), ord)
             tbs == Packet_tbs(payload.bytes)
             h == Deref(pk.Header)
             sized == Packet_sized(h, tbs)
             pk1 == [pk EXCEPT !.Header = Ptr(sized)]
             header == Header_MarshalPacket(sized, ord)
         IN  IF payload.err # NoErr
             THEN [bytes |-> <<>>, err |-> payload.err, obj |-> pk]
             ELSE IF tbs > maxUint16
             THEN [bytes |-> <<>>, err |-> ErrPacketSizeOverflow, obj |-> pk]
             ELSE IF h.Frame = Nil
             THEN [bytes |-> <<>>, err |-> Panic, obj |-> pk]
             ELSE IF header.err # NoErr
             THEN [bytes |-> <<>>, err |-> header.err, obj |-> pk1]
             ELSE [bytes |-> header.bytes \o payload.bytes, err |-> NoErr, obj |-> pk1]

packetComponentByType_Mutant(t) ==
    CASE t = DeviceStateService -> Ptr(ZeroPayload("DeviceStateService"))
      [] t = DeviceStateHostInfo -> Ptr(ZeroPayload("DeviceStateHostInfo"))
      [] t = DeviceStateHostFirmware -> Ptr(ZeroPayload("DeviceStateHostFirmware"))
      [] t = DeviceStateWifiInfo -> Ptr(ZeroPayload("DeviceStateWifiInfo"))
      [] t = DeviceStateWifiFirmware -> Ptr(ZeroPayload("DeviceStateWifiFirmware"))
      [] t \in {DeviceStatePower, DeviceSetPower} -> Ptr(ZeroPayload("DeviceStatePower"))
      [] t \in {DeviceStateLabel, DeviceSetLabel} -> Ptr(ZeroPayload("DeviceStateLabel"))
      [] t = DeviceStateVersion -> Ptr(ZeroPayload("DeviceStateVersion"))
      [] t = DeviceStateInfo -> Ptr(ZeroPayload("DeviceStateInfo"))
      [] t = DeviceStateLocation -> Ptr(ZeroPayload("DeviceStateInfo"))
      [] t = DeviceStateGroup -> Ptr(ZeroPayload("DeviceStateGroup"))
      [] t \in {DeviceEchoResponse, DeviceEchoRequest} -> Ptr(ZeroPayload("DeviceEcho"))
      [] t = LightSetColor -> Ptr(ZeroPayload("LightSetColor"))
      [] t = LightState -> Ptr(ZeroPayload("LightState"))
      [] t = LightSetPower -> Ptr(ZeroPayload("LightSetPower"))
      [] t = LightStatePower -> Ptr(ZeroPayload("LightStatePower"))
      [] OTHER -> Ptr(ZeroPayload("DeviceStatePower"))

packetComponentByType(t) ==
    CASE t = DeviceStateService -> Ptr(ZeroPayload("DeviceStateService"))
      [] t = DeviceStateHostInfo -> Ptr(ZeroPayload("DeviceStateHostInfo"))
      [] t = DeviceStateHostFirmware -> Ptr(ZeroPayload("DeviceStateHostFirmware"))
      [] t = DeviceStateWifiInfo -> Ptr(ZeroPayload("DeviceStateWifiInfo"))
      [] t = DeviceStateWifiFirmware -> Ptr(ZeroPayload("DeviceStateWifiFirmware"))
      [] t \in {DeviceStatePower, DeviceSetPower} -> Ptr(ZeroPayload("DeviceStatePower"))
      [] t \in {DeviceStateLabel, DeviceSetLabel} -> Ptr(ZeroPayload("DeviceStateLabel"))
      [] t = DeviceStateVersion -> Ptr(ZeroPayload("DeviceStateVersion"))
      [] t = DeviceStateInfo -> Ptr(ZeroPayload("DeviceStateInfo"))
      [] t = DeviceStateLocation -> Ptr(ZeroPayload("DeviceStateInfo"))
      [] t = DeviceStateGroup -> Ptr(ZeroPayload("DeviceStateGroup"))
      [] t \in {DeviceEchoResponse, DeviceEchoRequest} -> Ptr(ZeroPayload("DeviceEcho"))
      [] t = LightSetColor -> Ptr(ZeroPayload("LightSetColor"))
      [] t = LightState -> Ptr(ZeroPayload("LightState"))
      [] t = LightSetPower -> Ptr(ZeroPayload("LightSetPower"))
      [] t = LightStatePower -> Ptr(ZeroPayload("LightStatePower"))
      [] OTHER -> Nil

Packet_unmarshalPayload_Mutant(pk, rd, ord) ==
    LET decoded(r) ==
            IF r.err # NoErr
            THEN [pc |-> Nil, err |-> r.err, rest |-> r.rest]
            ELSE [pc |-> Ptr(r.obj), err |-> NoErr, rest |-> r.rest]
        dispatched(pc) ==
            IF pc = Nil
            THEN [pc |-> Nil, err |-> NoErr, rest |-> rd]
            ELSE decoded(Payload_UnmarshalPacket(Deref(pc), rd, ord))
    IN  IF Deref(pk.Header).ProtocolHeader = Nil
        THEN [pc |-> Nil, err |-> ErrProtocolHeaderNil, rest |-> rd]
        ELSE dispatched(packetComponentByType(Deref(Deref(pk.Header).ProtocolHeader).Type))

\* returns the payload pointer pc and the error
Packet_unmarshalPayload(pk, rd, ord) ==
    LET decoded(r) ==
            IF r.err # NoErr
            THEN [pc |-> Nil, err |-> r.err, rest |-> r.rest]
            ELSE [pc |-> Ptr(r.obj), err |-> NoErr, rest |-> r.rest]
        dispatched(pc) ==
            IF pc = Nil
            THEN [pc |-> Nil, err |-> ErrUnknownMessageType, rest |-> rd]
            ELSE decoded(Payload_UnmarshalPacket(Deref(pc), rd, ord))
    IN  IF Deref(pk.Header).ProtocolHeader = Nil
        THEN [pc |-> Nil, err |-> ErrProtocolHeaderNil, rest |-> rd]
        ELSE dispatched(packetComponentByType(Deref(Deref(pk.Header).ProtocolHeader).Type))

\* the Header the decode starts from
FreshHeader ==
    [Frame |-> Ptr(ZeroFrame), FrameAddress |-> Ptr(ZeroFrameAddress),
     ProtocolHeader |-> Ptr(ZeroProtocolHeader)]

Packet_UnmarshalPacket_Mutant(pk, rd, ord) ==
    LET withPayload(pk1, payload) ==
            IF payload.err # NoErr
            THEN [obj |-> pk1, err |-> payload.err, rest |-> payload.rest]
            ELSE [obj |-> [pk1 EXCEPT !.Payload = payload.pc], err |-> NoErr,
                  rest |-> payload.rest]
        withHeader(hdr) ==
            IF hdr.err # NoErr
            THEN [obj |-> [pk EXCEPT !.Header = Ptr(hdr.obj)], err |-> hdr.err,
                  rest |-> hdr.rest]
            ELSE withPayload([pk EXCEPT !.Header = Ptr(hdr.obj)],
                             Packet_unmarshalPayload([pk EXCEPT !.Header = Ptr(hdr.obj)],
                                                     hdr.rest, ord))
    IN  withHeader(Header_UnmarshalPacket(FreshHeader, rd, ord))

Packet_UnmarshalPacket(pk, rd, ord) ==
    LET withPayload(pk1, payload) ==
            IF payload.err # NoErr
            THEN [obj |-> pk1, err |-> payload.err, rest |-> payload.rest]
            ELSE [obj |-> [pk1 EXCEPT !.Payload = payload.pc], err |-> NoErr,
                  rest |-> payload.rest]
        withHeader(hdr) ==
            IF hdr.err # NoErr
            THEN [obj |-> pk, err |-> hdr.err, rest |-> hdr.rest]
            ELSE withPayload([pk EXCEPT !.Header = Ptr(hdr.obj)],
                             Packet_unmarshalPayload([pk EXCEPT !.Header = Ptr(hdr.obj)],
                                                     hdr.rest, ord))
    IN  withHeader(Header_UnmarshalPacket(FreshHeader, rd, ord))

----------------------------------------------------------------------------
(* Values the variables hold while a specification does not use them *)

NoRet == [op |-> "none", bytes |-> <<>>, err |-> NoErr]

PacketIdle ==
    /\ p = ZeroPacket /\ p0 = ZeroPacket
    /\ q = ZeroPacket /\ q0 = ZeroPacket
    /\ data = <<>> /\ wire = <<>>

AddrIdle == target = <<>> /\ u64 = Zero64 /\ hwaddr = <<>>

packetVars == <<p, p0, q, q0, data, wire>>
addrVars == <<target, u64, hwaddr>>

----------------------------------------------------------------------------
(* SpecAddr: the address codec applied to 6-byte addresses *)

\* 01:23:45:67:89:ab, the address of the repository's tests
TestMAC == <<1, 35, 69, 103, 137, 171>>

AddrBytes == {0, 1, 128, 255}

Addrs == {TestMAC} \cup [1..6 -> AddrBytes]

InitAddr ==
    /\ target \in Addrs
    /\ u64 = Zero64
    /\ hwaddr = <<>>
    /\ order = LittleEndian
    /\ ret = NoRet
    /\ calls = <<>>
    /\ PacketIdle

CallHardwareAddrToUint64 ==
    /\ calls = <<>>
    /\ u64' = HardwareAddrToUint64(target)
    /\ calls' = Append(calls, "HardwareAddrToUint64")
    /\ UNCHANGED <<order, ret, target, hwaddr, packetVars>>

CallTargetSliceToUint ==
    /\ calls = <<>>
    /\ u64' = targetSliceToUint(target)
    /\ calls' = Append(calls, "targetSliceToUint")
    /\ UNCHANGED <<order, ret, target, hwaddr, packetVars>>

CallUint64ToHardwareAddr ==
    /\ Len(calls) = 1
    /\ hwaddr' = Uint64ToHardwareAddr(u64)
    /\ calls' = Append(calls, "Uint64ToHardwareAddr")
    /\ UNCHANGED <<order, ret, target, u64, packetVars>>

CallUintToTargetSlice ==
    /\ Len(calls) = 1
    /\ hwaddr' = uintToTargetSlice(u64)
    /\ calls' = Append(calls, "uintToTargetSlice")
    /\ UNCHANGED <<order, ret, target, u64, packetVars>>

NextAddr ==
    \/ CallHardwareAddrToUint64
    \/ CallTargetSliceToUint
    \/ CallUint64ToHardwareAddr
    \/ CallUintToTargetSlice

SpecAddr == InitAddr /\ [][NextAddr]_vars

\* C7: decoding the uint64 an address was encoded to returns the address,
\* for the exported pair, the private pair and across the two pairs.
C7_AddressRoundTrip ==
    Len(calls) = 2 => hwaddr = target

C7_Witness ==
    /\ calls = <<"targetSliceToUint", "Uint64ToHardwareAddr">>
    /\ target = TestMAC
    /\ hwaddr = TestMAC

\* bit j of byte b
Bit(b, j) == (b \div Pow2(j)) % 2

\* C8: encoding puts byte[i] in bits 63-8i down to 56-8i of the uint64, so
\* the low 16 bits of the encoded value are zero for every address.
C8_AddressLayout ==
    Len(calls) >= 1 =>
        /\ \A i \in 0..5 : \A j \in 0..7 : u64[56 - 8 * i + j] = Bit(target[i + 1], j)
        /\ \A k \in 0..15 : u64[k] = 0

----------------------------------------------------------------------------
(* SpecFrame: Frame.MarshalPacket, then Frame.UnmarshalPacket of its bytes *)

Frames ==
    [Size : {0, 100, 65535},
     Origin : {0, 1, 2, 3, 4, 255},
     Tagged : BOOLEAN,
     Addressable : BOOLEAN,
     Protocol : {0, 1, 1024, 4095, 4096, 65535},
     Source : {<<0, 0, 0, 0>>, <<18, 52, 86, 120>>, <<255, 255, 255, 255>>}]

\* the Frames a caller decodes into: a new one, and one used before
FrameTargets ==
    {ZeroFrame,
     [Size |-> 44, Origin |-> 1, Tagged |-> TRUE, Addressable |-> TRUE,
      Protocol |-> 1024, Source |-> <<1, 2, 3, 4>>]}

InitFrame ==
    /\ order \in Orders
    /\ p \in {Ptr(f) : f \in Frames}
    /\ p0 = p
    /\ q = Ptr(ZeroFrame)
    /\ q0 = q
    /\ data = <<>>
    /\ wire = <<>>
    /\ ret = NoRet
    /\ calls = <<>>
    /\ AddrIdle

CallFrameMarshalPacket ==
    /\ calls = <<>>
    /\ LET r == Frame_MarshalPacket(Deref(p), order)
       IN  ret' = [op |-> "Frame.MarshalPacket", bytes |-> r.bytes, err |-> r.err]
    /\ calls' = Append(calls, "Frame.MarshalPacket")
    /\ UNCHANGED <<order, p, p0, q, q0, data, wire, addrVars>>

\* bytes.NewReader over the bytes just encoded, and the Frame to decode into
FrameNewReader ==
    /\ calls = <<"Frame.MarshalPacket">>
    /\ ret.err = NoErr
    /\ data' = ret.bytes
    /\ wire' = ret.bytes
    /\ \E f \in FrameTargets : q' = Ptr(f)
    /\ q0' = q'
    /\ calls' = Append(calls, "bytes.NewReader")
    /\ UNCHANGED <<order, p, p0, ret, addrVars>>

CallFrameUnmarshalPacket ==
    /\ calls = <<"Frame.MarshalPacket", "bytes.NewReader">>
    /\ LET r == Frame_UnmarshalPacket(q, data, order)
       IN  /\ q' = r.obj
           /\ data' = r.rest
           /\ ret' = [op |-> "Frame.UnmarshalPacket", bytes |-> <<>>, err |-> r.err]
    /\ calls' = Append(calls, "Frame.UnmarshalPacket")
    /\ UNCHANGED <<order, p, p0, q0, wire, addrVars>>

NextFrame ==
    \/ CallFrameMarshalPacket
    \/ FrameNewReader
    \/ CallFrameUnmarshalPacket

SpecFrame == InitFrame /\ [][NextFrame]_vars

\* C5: Frame.UnmarshalPacket of the bytes of Frame.MarshalPacket, in the same
\* byte order, yields a Frame equal in all six fields.
C5_FrameRoundTrip ==
    ret.op = "Frame.UnmarshalPacket" =>
        /\ ret.err = NoErr
        /\ Deref(q).Size = Deref(p).Size
        /\ Deref(q).Origin = Deref(p).Origin
        /\ Deref(q).Tagged = Deref(p).Tagged
        /\ Deref(q).Addressable = Deref(p).Addressable
        /\ Deref(q).Protocol = Deref(p).Protocol
        /\ Deref(q).Source = Deref(p).Source

C5_Witness ==
    /\ ret.op = "Frame.UnmarshalPacket"
    /\ order = BigEndian
    /\ Deref(p) = [Size |-> 100, Origin |-> 3, Tagged |-> TRUE, Addressable |-> FALSE,
                   Protocol |-> 4095, Source |-> <<18, 52, 86, 120>>]
    /\ Deref(q0) # ZeroFrame
    /\ Deref(q) = Deref(p)

\* C9: Frame.MarshalPacket succeeds exactly when origin <= 3 and
\* protocol <= 4095; origin >= 4 returns ErrFrameOriginOverflow, and
\* otherwise protocol >= 4096 returns ErrFrameProtocolOverflow, both with
\* nil bytes.
C9_FrameRange ==
    ret.op = "Frame.MarshalPacket" =>
        LET f == Deref(p)
        IN  /\ (ret.err = NoErr) <=> (f.Origin <= 3 /\ f.Protocol <= 4095)
            /\ ret.err = NoErr => Len(ret.bytes) = 8
            /\ f.Origin >= 4 => ret.err = ErrFrameOriginOverflow /\ ret.bytes = <<>>
            /\ (f.Origin <= 3 /\ f.Protocol >= 4096) =>
                   ret.err = ErrFrameProtocolOverflow /\ ret.bytes = <<>>

C9_Witness ==
    /\ ret.op = "Frame.MarshalPacket"
    /\ Deref(p).Origin = 4
    /\ Deref(p).Protocol = 4096
    /\ ret.err = ErrFrameOriginOverflow
    /\ ret.bytes = <<>>

----------------------------------------------------------------------------
(* SpecFrameAddress: FrameAddress.MarshalPacket, then                      *)
(* FrameAddress.UnmarshalPacket of its bytes                               *)

\* the longest Target a caller builds
MaxTargetLen == 8

\* the first n bytes of the test address followed by the byte fill
TargetOfLen(n, fill) == [i \in 1..n |-> IF i <= 6 THEN TestMAC[i] ELSE fill]

Targets ==
    {TargetOfLen(n, fill) : n \in 0..MaxTargetLen, fill \in {0, 7}}
    \cup {<<0, 0, 0, 0, 0, 0>>, <<255, 255, 255, 255, 255, 255>>,
          <<254, 128, 1, 0, 127, 2>>}

FrameAddresses ==
    [Target : Targets,
     ReservedBlock : {<<0, 0, 0, 0, 0, 0>>, <<40, 41, 42, 43, 44, 45>>},
     Reserved : {0, 1, 50, 63, 64, 255},
     AckRequired : BOOLEAN,
     ResRequired : BOOLEAN,
     Sequence : {0, 128, 255}]

\* the FrameAddresses a caller decodes into: a new one, and one used before
FrameAddressTargets ==
    {ZeroFrameAddress,
     [Target |-> <<9, 9, 9, 9, 9, 9>>, ReservedBlock |-> <<1, 2, 3, 4, 5, 6>>,
      Reserved |-> 21, AckRequired |-> TRUE, ResRequired |-> TRUE, Sequence |-> 7]}

InitFrameAddress ==
    /\ order \in Orders
    /\ p \in {Ptr(fra) : fra \in FrameAddresses}
    /\ p0 = p
    /\ q = Ptr(ZeroFrameAddress)
    /\ q0 = q
    /\ data = <<>>
    /\ wire = <<>>
    /\ ret = NoRet
    /\ calls = <<>>
    /\ AddrIdle

CallFrameAddressMarshalPacket ==
    /\ calls = <<>>
    /\ LET r == FrameAddress_MarshalPacket(Deref(p), order)
       IN  ret' = [op |-> "FrameAddress.MarshalPacket", bytes |-> r.bytes, err |-> r.err]
    /\ calls' = Append(calls, "FrameAddress.MarshalPacket")
    /\ UNCHANGED <<order, p, p0, q, q0, data, wire, addrVars>>

\* bytes.NewReader over the bytes just encoded, and the FrameAddress to
\* decode into
FrameAddressNewReader ==
    /\ calls = <<"FrameAddress.MarshalPacket">>
    /\ ret.err = NoErr
    /\ data' = ret.bytes
    /\ wire' = ret.bytes
    /\ \E fra \in FrameAddressTargets : q' = Ptr(fra)
    /\ q0' = q'
    /\ calls' = Append(calls, "bytes.NewReader")
    /\ UNCHANGED <<order, p, p0, ret, addrVars>>

CallFrameAddressUnmarshalPacket ==
    /\ calls = <<"FrameAddress.MarshalPacket", "bytes.NewReader">>
    /\ LET r == FrameAddress_UnmarshalPacket(q, data, order)
       IN  /\ q' = r.obj
           /\ data' = r.rest
           /\ ret' = [op |-> "FrameAddress.UnmarshalPacket", bytes |-> <<>>, err |-> r.err]
    /\ calls' = Append(calls, "FrameAddress.UnmarshalPacket")
    /\ UNCHANGED <<order, p, p0, q0, wire, addrVars>>

NextFrameAddress ==
    \/ CallFrameAddressMarshalPacket
    \/ FrameAddressNewReader
    \/ CallFrameAddressUnmarshalPacket

SpecFrameAddress == InitFrameAddress /\ [][NextFrameAddress]_vars

\* C6: for a 6-byte Target, FrameAddress.UnmarshalPacket of the 16 bytes of
\* FrameAddress.MarshalPacket yields an equal FrameAddress.
C6_FrameAddressRoundTrip ==
    (ret.op = "FrameAddress.UnmarshalPacket" /\ Len(Deref(p).Target) = 6) =>
        /\ ret.err = NoErr
        /\ Len(wire) = 16
        /\ Deref(q).Target = Deref(p).Target
        /\ Deref(q).ReservedBlock = Deref(p).ReservedBlock
        /\ Deref(q).Reserved = Deref(p).Reserved
        /\ Deref(q).AckRequired = Deref(p).AckRequired
        /\ Deref(q).ResRequired = Deref(p).ResRequired
        /\ Deref(q).Sequence = Deref(p).Sequence

C6_Witness ==
    /\ ret.op = "FrameAddress.UnmarshalPacket"
    /\ Deref(p) = [Target |-> TestMAC, ReservedBlock |-> <<40, 41, 42, 43, 44, 45>>,
                   Reserved |-> 63, AckRequired |-> TRUE, ResRequired |-> FALSE,
                   Sequence |-> 128]
    /\ Deref(q0) # ZeroFrameAddress
    /\ Deref(q) = Deref(p)

\* the Target forms FrameAddress documents: six bytes, or eight bytes of
\* which the last two are zero
WellFormedTarget(t) == Len(t) = 6 \/ (Len(t) = 8 /\ t[7] = 0 /\ t[8] = 0)

\* C10: FrameAddress.MarshalPacket with reserved <= 63 and a well-formed
\* target succeeds; with reserved >= 64 it returns
\* ErrFrameAddressReservedOverflow and nil bytes whatever the other fields.
C10_FrameAddressReserved ==
    ret.op = "FrameAddress.MarshalPacket" =>
        LET fra == Deref(p)
        IN  /\ (fra.Reserved <= 63 /\ WellFormedTarget(fra.Target)) =>
                   ret.err = NoErr /\ Len(ret.bytes) = 16
            /\ fra.Reserved >= 64 =>
                   ret.err = ErrFrameAddressReservedOverflow /\ ret.bytes = <<>>

C10_Witness ==
    /\ ret.op = "FrameAddress.MarshalPacket"
    /\ Deref(p).Reserved = 64
    /\ Deref(p).Target = TestMAC
    /\ ret.err = ErrFrameAddressReservedOverflow
    /\ ret.bytes = <<>>

\* C11: whenever Target is neither six bytes nor eight bytes ending in two
\* zero bytes, FrameAddress.MarshalPacket fails with
\* ErrFrameAddressTargetMalformed and returns no bytes.  (The empty Target,
\* which FrameAddress documents as "all devices", is left aside here: the
\* property is stated for the non-empty malformed Targets only.)
C11_MalformedTarget ==
    (/\ ret.op = "FrameAddress.MarshalPacket"
     /\ Deref(p).Reserved <= 63
     /\ Deref(p).Target # <<>>
     /\ ~WellFormedTarget(Deref(p).Target)) =>
        /\ ret.err = ErrFrameAddressTargetMalformed
        /\ ret.bytes = <<>>

----------------------------------------------------------------------------
(* SpecHeader: Header.MarshalPacket, then Header.UnmarshalPacket of its    *)
(* bytes                                                                   *)

HeaderFrames ==
    [Size : {100},
     Origin : {0, 3, 4},
     Tagged : BOOLEAN,
     Addressable : BOOLEAN,
     Protocol : {1024, 4095, 4096},
     Source : {<<18, 52, 86, 120>>}]

HeaderFrameAddresses ==
    [Target : {TestMAC, <<>>},
     ReservedBlock : {<<40, 41, 42, 43, 44, 45>>},
     Reserved : {50, 63, 64},
     AckRequired : BOOLEAN,
     ResRequired : BOOLEAN,
     Sequence : {128}]

HeaderProtocolHeaders ==
    [Reserved : {<<0, 0, 0, 0, 0, 0, 0, 200>>},
     Type : {DeviceGetService, LightStatePower},
     ReservedEnd : {2020}]

\* Headers with each part present or nil
Headers ==
    [Frame : {Nil} \cup {Ptr(f) : f \in HeaderFrames},
     FrameAddress : {Nil} \cup {Ptr(fra) : fra \in HeaderFrameAddresses},
     ProtocolHeader : {Nil} \cup {Ptr(ph) : ph \in HeaderProtocolHeaders}]

\* the Headers a caller decodes into: all parts allocated, or one left nil
HeaderTargets ==
    {FreshHeader,
     [FreshHeader EXCEPT !.Frame = Nil],
     [FreshHeader EXCEPT !.FrameAddress = Nil],
     [FreshHeader EXCEPT !.ProtocolHeader = Nil]}

InitHeader ==
    /\ order \in Orders
    /\ p \in {Ptr(h) : h \in Headers}
    /\ p0 = p
    /\ q = Ptr(FreshHeader)
    /\ q0 = q
    /\ data = <<>>
    /\ wire = <<>>
    /\ ret = NoRet
    /\ calls = <<>>
    /\ AddrIdle

CallHeaderMarshalPacket ==
    /\ calls = <<>>
    /\ LET r == Header_MarshalPacket(Deref(p), order)
       IN  ret' = [op |-> "Header.MarshalPacket", bytes |-> r.bytes, err |-> r.err]
    /\ calls' = Append(calls, "Header.MarshalPacket")
    /\ UNCHANGED <<order, p, p0, q, q0, data, wire, addrVars>>

\* bytes.NewReader over the bytes just encoded, and the Header to decode into
HeaderNewReader ==
    /\ calls = <<"Header.MarshalPacket">>
    /\ ret.err = NoErr
    /\ data' = ret.bytes
    /\ wire' = ret.bytes
    /\ \E h \in HeaderTargets : q' = Ptr(h)
    /\ q0' = q'
    /\ calls' = Append(calls, "bytes.NewReader")
    /\ UNCHANGED <<order, p, p0, ret, addrVars>>

CallHeaderUnmarshalPacket ==
    /\ calls = <<"Header.MarshalPacket", "bytes.NewReader">>
    /\ LET r == Header_UnmarshalPacket(Deref(q), data, order)
       IN  /\ q' = Ptr(r.obj)
           /\ data' = r.rest
           /\ ret' = [op |-> "Header.UnmarshalPacket", bytes |-> <<>>, err |-> r.err]
    /\ calls' = Append(calls, "Header.UnmarshalPacket")
    /\ UNCHANGED <<order, p, p0, q0, wire, addrVars>>

NextHeader ==
    \/ CallHeaderMarshalPacket
    \/ HeaderNewReader
    \/ CallHeaderUnmarshalPacket

SpecHeader == InitHeader /\ [][NextHeader]_vars

\* C13: every successful Header.MarshalPacket returns 36 bytes: the Frame's
\* 8, the FrameAddress's 16 and the ProtocolHeader's 12, with size at offset
\* 0, origin|tagged|addressable|protocol at 2, source at 4, target at 8,
\* reserved block at 16, reserved|ack|res at 22, sequence at 23,
\* protocol-header reserved at 24, type at 32 and reserved-end at 34.
C13_HeaderLayout ==
    (ret.op = "Header.MarshalPacket" /\ ret.err = NoErr) =>
        LET f == Deref(Deref(p).Frame)
            fra == Deref(Deref(p).FrameAddress)
            ph == Deref(Deref(p).ProtocolHeader)
            b == ret.bytes
            u16at(off) == WordU16(GetWord(order, SubSeq(b, off + 1, off + 2)))
            bit(x) == IF x THEN 1 ELSE 0
        IN  /\ Len(b) = 36
            /\ SubSeq(b, 1, 8) = Frame_MarshalPacket(f, order).bytes
            /\ SubSeq(b, 9, 24) = FrameAddress_MarshalPacket(fra, order).bytes
            /\ SubSeq(b, 25, 36) = ProtocolHeader_MarshalPacket(ph, order).bytes
            /\ u16at(0) = f.Size
            /\ u16at(2) = f.Origin * 16384 + bit(f.Tagged) * 8192
                             + bit(f.Addressable) * 4096 + f.Protocol
            /\ GetWord(order, SubSeq(b, 5, 8)) = f.Source
            /\ (Len(fra.Target) = 6 =>
                    Uint64ToHardwareAddr(WordU64(GetWord(order, SubSeq(b, 9, 16))))
                        = fra.Target)
            /\ SubSeq(b, 17, 22) = fra.ReservedBlock
            /\ b[23] = fra.Reserved * 4 + bit(fra.AckRequired) * 2 + bit(fra.ResRequired)
            /\ b[24] = fra.Sequence
            /\ GetWord(order, SubSeq(b, 25, 32)) = ph.Reserved
            /\ u16at(32) = ph.Type
            /\ u16at(34) = ph.ReservedEnd

C13_Witness ==
    /\ ret.op = "Header.MarshalPacket"
    /\ ret.err = NoErr
    /\ Len(ret.bytes) = 36
    /\ Deref(Deref(p).Frame).Origin = 3
    /\ Deref(Deref(p).Frame).Tagged
    /\ ~Deref(Deref(p).Frame).Addressable
    /\ Deref(Deref(p).Frame).Protocol = 4095
    /\ Deref(Deref(p).FrameAddress).Target = TestMAC
    /\ Deref(Deref(p).FrameAddress).Reserved = 63
    /\ Deref(Deref(p).FrameAddress).AckRequired
    /\ ~Deref(Deref(p).FrameAddress).ResRequired

\* C14: Header.MarshalPacket returns the structural error and no bytes when
\* a part is nil, whatever the present parts hold; otherwise it returns the
\* first failure in the order Frame (origin, then protocol), FrameAddress,
\* ProtocolHeader, and succeeds when there is none.
C14_HeaderNil ==
    ret.op = "Header.MarshalPacket" =>
        LET h == Deref(p)
        IN  IF h.Frame = Nil \/ h.FrameAddress = Nil \/ h.ProtocolHeader = Nil
            THEN ret.err = ErrHeaderNil /\ ret.bytes = <<>>
            ELSE IF Deref(h.Frame).Origin > 3
            THEN ret.err = ErrFrameOriginOverflow /\ ret.bytes = <<>>
            ELSE IF Deref(h.Frame).Protocol > 4095
            THEN ret.err = ErrFrameProtocolOverflow /\ ret.bytes = <<>>
            ELSE IF Deref(h.FrameAddress).Reserved > 63
            THEN ret.err = ErrFrameAddressReservedOverflow /\ ret.bytes = <<>>
            ELSE ret.err = NoErr /\ Len(ret.bytes) = 36

C14_Witness ==
    /\ ret.op = "Header.MarshalPacket"
    /\ Deref(p).FrameAddress = Nil
    /\ Deref(p).Frame # Nil
    /\ Deref(Deref(p).Frame).Origin = 4
    /\ ret.err = ErrHeaderNil
    /\ ret.bytes = <<>>

----------------------------------------------------------------------------
(* SpecProtocolHeader: ProtocolHeader.MarshalPacket, then                  *)
(* ProtocolHeader.UnmarshalPacket of its bytes                             *)

\* type codes with a name and a registry entry, with a name only, and with
\* neither
ProtocolHeaders ==
    [Reserved : {<<0, 0, 0, 0, 0, 0, 0, 0>>, <<1, 2, 3, 4, 5, 6, 7, 200>>,
                 <<255, 255, 255, 255, 255, 255, 255, 255>>},
     Type : {DeviceStateLocation, LightStatePower, DeviceGetService, LightGet,
             0, 119, 258, 65535},
     ReservedEnd : {0, 2020, 65535}]

\* the ProtocolHeaders a caller decodes into: a new one, and one used before
ProtocolHeaderTargets ==
    {ZeroProtocolHeader,
     [Reserved |-> <<9, 9, 9, 9, 9, 9, 9, 9>>, Type |-> LightState, ReservedEnd |-> 7]}

InitProtocolHeader ==
    /\ order \in Orders
    /\ p \in {Ptr(ph) : ph \in ProtocolHeaders}
    /\ p0 = p
    /\ q = Ptr(ZeroProtocolHeader)
    /\ q0 = q
    /\ data = <<>>
    /\ wire = <<>>
    /\ ret = NoRet
    /\ calls = <<>>
    /\ AddrIdle

CallProtocolHeaderMarshalPacket ==
    /\ calls = <<>>
    /\ LET r == ProtocolHeader_MarshalPacket(Deref(p), order)
       IN  ret' = [op |-> "ProtocolHeader.MarshalPacket", bytes |-> r.bytes, err |-> r.err]
    /\ calls' = Append(calls, "ProtocolHeader.MarshalPacket")
    /\ UNCHANGED <<order, p, p0, q, q0, data, wire, addrVars>>

\* bytes.NewReader over the bytes just encoded, and the ProtocolHeader to
\* decode into
ProtocolHeaderNewReader ==
    /\ calls = <<"ProtocolHeader.MarshalPacket">>
    /\ ret.err = NoErr
    /\ data' = ret.bytes
    /\ wire' = ret.bytes
    /\ \E ph \in ProtocolHeaderTargets : q' = Ptr(ph)
    /\ q0' = q'
    /\ calls' = Append(calls, "bytes.NewReader")
    /\ UNCHANGED <<order, p, p0, ret, addrVars>>

CallProtocolHeaderUnmarshalPacket ==
    /\ calls = <<"ProtocolHeader.MarshalPacket", "bytes.NewReader">>
    /\ LET r == ProtocolHeader_UnmarshalPacket(q, data, order)
       IN  /\ q' = r.obj
           /\ data' = r.rest
           /\ ret' = [op |-> "ProtocolHeader.UnmarshalPacket", bytes |-> <<>>,
                      err |-> r.err]
    /\ calls' = Append(calls, "ProtocolHeader.UnmarshalPacket")
    /\ UNCHANGED <<order, p, p0, q0, wire, addrVars>>

NextProtocolHeader ==
    \/ CallProtocolHeaderMarshalPacket
    \/ ProtocolHeaderNewReader
    \/ CallProtocolHeaderUnmarshalPacket

SpecProtocolHeader == InitProtocolHeader /\ [][NextProtocolHeader]_vars

\* C19: for every reserved, type and reservedEnd, named or not,
\* ProtocolHeader.MarshalPacket succeeds with 12 bytes (reserved, type,
\* reservedEnd in that order) and ProtocolHeader.UnmarshalPacket of those
\* bytes returns the same three values.
C19_ProtocolHeaderCodec ==
    /\ (ret.op = "ProtocolHeader.MarshalPacket" =>
            /\ ret.err = NoErr
            /\ Len(ret.bytes) = 12
            /\ GetWord(order, SubSeq(ret.bytes, 1, 8)) = Deref(p).Reserved
            /\ WordU16(GetWord(order, SubSeq(ret.bytes, 9, 10))) = Deref(p).Type
            /\ WordU16(GetWord(order, SubSeq(ret.bytes, 11, 12))) = Deref(p).ReservedEnd)
    /\ (ret.op = "ProtocolHeader.UnmarshalPacket" =>
            /\ ret.err = NoErr
            /\ data = <<>>
            /\ Deref(q) = Deref(p))

C19_Witness ==
    /\ ret.op = "ProtocolHeader.UnmarshalPacket"
    /\ phTypetoString(Deref(p).Type) = "UnknownType"
    /\ Deref(p).Type = 258
    /\ Deref(p).ReservedEnd = 2020
    /\ Deref(q0) # ZeroProtocolHeader
    /\ ret.err = NoErr
    /\ Deref(q) = Deref(p)

----------------------------------------------------------------------------
(* Spec: Packet.MarshalPacket, then Packet.UnmarshalPacket of its bytes *)

\* the payload type that carries each message, by the message's name
MessagePayloadType(t) ==
    CASE t = DeviceStateService -> "DeviceStateService"
      [] t = DeviceStateHostInfo -> "DeviceStateHostInfo"
      [] t = DeviceStateHostFirmware -> "DeviceStateHostFirmware"
      [] t = DeviceStateWifiInfo -> "DeviceStateWifiInfo"
      [] t = DeviceStateWifiFirmware -> "DeviceStateWifiFirmware"
      [] t \in {DeviceStatePower, DeviceSetPower} -> "DeviceStatePower"
      [] t \in {DeviceStateLabel, DeviceSetLabel} -> "DeviceStateLabel"
      [] t = DeviceStateVersion -> "DeviceStateVersion"
      [] t = DeviceStateInfo -> "DeviceStateInfo"
      [] t = DeviceStateLocation -> "DeviceStateLocation"
      [] t = DeviceStateGroup -> "DeviceStateGroup"
      [] t \in {DeviceEchoResponse, DeviceEchoRequest} -> "DeviceEcho"
      [] t = LightSetColor -> "LightSetColor"
      [] t = LightState -> "LightState"
      [] t = LightSetPower -> "LightSetPower"
      [] t = LightStatePower -> "LightStatePower"
      [] OTHER -> "none"

\* the codes of the messages that carry a payload
PayloadCodes ==
    {DeviceStateService, DeviceStateHostInfo, DeviceStateHostFirmware,
     DeviceStateWifiInfo, DeviceStateWifiFirmware, DeviceSetPower, DeviceStatePower,
     DeviceSetLabel, DeviceStateLabel, DeviceStateVersion, DeviceStateInfo,
     DeviceStateLocation, DeviceStateGroup, DeviceEchoRequest, DeviceEchoResponse,
     LightSetColor, LightState, LightSetPower, LightStatePower}

\* the codes of the messages without a payload
GetCodes ==
    {DeviceGetService, DeviceGetHostInfo, DeviceGetHostFirmware, DeviceGetWifiInfo,
     DeviceGetWifiFirmware, DeviceGetPower, DeviceGetLabel, DeviceGetVersion,
     DeviceGetInfo, DeviceAcknowledgement, DeviceGetLocation, DeviceGetGroup,
     LightGet, LightGetPower}

\* codes no message has
UnnamedCodes == {0, 1, 4, 60, 119, 65535}

TypeCodes == PayloadCodes \cup GetCodes \cup UnnamedCodes

\* field values: the byte at index i of field number j
SampleBytes(seed, j, n) == [i \in 1..n |-> (seed * 37 + j * 16 + i) % 256]

RECURSIVE SampleFields(_, _, _, _)
SampleFields(x, fields, seed, i) ==
    IF i > Len(fields) THEN x
    ELSE SampleFields([x EXCEPT ![fields[i].name] = SampleBytes(seed, i, fields[i].n)],
                      fields, seed, i + 1)

Seeds == {1, 6}

SampleHSBK(seed) ==
    SampleFields(ZeroPayload("LightHSBK"), PayloadFields("LightHSBK"), seed, 1)

Durations ==
    {ZeroDuration,
     [neg |-> FALSE, hi |-> 0, lo |-> 42, ns |-> 0],
     [neg |-> FALSE, hi |-> 0, lo |-> 1, ns |-> 500000],
     [neg |-> FALSE, hi |-> 18, lo |-> 54321, ns |-> 0],
     lightMaxDuration,
     [neg |-> FALSE, hi |-> 65535, lo |-> 65535, ns |-> 1],
     [neg |-> FALSE, hi |-> 65536, lo |-> 42, ns |-> 0],
     [neg |-> TRUE, hi |-> 0, lo |-> 1, ns |-> 0]}

\* the Color pointers a caller sets
Colors == {Nil} \cup {Ptr(SampleHSBK(seed)) : seed \in Seeds}

SimpleTypes ==
    {"DeviceStateService", "DeviceStateHostInfo", "DeviceStateHostFirmware",
     "DeviceStateWifiInfo", "DeviceStateWifiFirmware", "DeviceStatePower",
     "DeviceStateLabel", "DeviceStateVersion", "DeviceStateInfo", "DeviceStateLocation",
     "DeviceStateGroup", "DeviceEcho", "LightStatePower"}

Payloads ==
    {SampleFields(ZeroPayload(type), PayloadFields(type), seed, 1) :
        type \in SimpleTypes, seed \in Seeds}
    \cup {[type |-> "LightSetColor", Reserved |-> <<seed>>, Color |-> c, Duration |-> d] :
            seed \in Seeds, c \in Colors, d \in Durations}
    \cup {[SampleFields(ZeroPayload("LightState"), LightStateTail, seed, 1)
              EXCEPT !.Color = c] :
            seed \in Seeds, c \in Colors}
    \cup {[type |-> "LightSetPower", Level |-> <<255, 255>>, Duration |-> d] :
            d \in Durations}

\* the payload of the repository's TestPacket_MarshalPacket
EchoPayload == SampleFields(ZeroPayload("DeviceEcho"), PayloadFields("DeviceEcho"), 1, 1)

\* the header of the repository's TestPacket_MarshalPacket
TestFrame ==
    [Size |-> 0, Origin |-> 3, Tagged |-> TRUE, Addressable |-> TRUE,
     Protocol |-> 1024, Source |-> <<18, 52, 86, 120>>]
TestFrameAddress ==
    [Target |-> TestMAC, ReservedBlock |-> <<40, 41, 42, 43, 44, 45>>, Reserved |-> 50,
     AckRequired |-> TRUE, ResRequired |-> TRUE, Sequence |-> 128]
TestProtocolHeader(t) ==
    [Reserved |-> <<0, 0, 0, 0, 0, 0, 0, 200>>, Type |-> t, ReservedEnd |-> 2020]

MkHeader(f, fra, ph) == [Frame |-> f, FrameAddress |-> fra, ProtocolHeader |-> ph]
MkPacket(h, pl) == [Header |-> h, Payload |-> pl]

PacketFrames ==
    [Size : {0, 7},
     Origin : {0, 3, 4},
     Tagged : {TRUE},
     Addressable : {FALSE},
     Protocol : {1024, 4096},
     Source : {<<18, 52, 86, 120>>}]

PacketFrameAddresses ==
    [Target : {TestMAC, TargetOfLen(0, 0), TargetOfLen(MaxTargetLen, 0),
               TargetOfLen(MaxTargetLen, 7)},
     ReservedBlock : {<<40, 41, 42, 43, 44, 45>>},
     Reserved : {50, 64},
     AckRequired : {FALSE},
     ResRequired : {TRUE},
     Sequence : {128}]

TestHeader(t) ==
    MkHeader(Ptr(TestFrame), Ptr(TestFrameAddress), Ptr(TestProtocolHeader(t)))

\* every payload, under the code of each message that carries it
PacketsByPayload ==
    {MkPacket(Ptr(TestHeader(tp[1])), Ptr(tp[2])) :
        tp \in {x \in PayloadCodes \X Payloads : MessagePayloadType(x[1]) = x[2].type}}

\* every type code, in front of the 64 bytes of an echo payload
PacketsByType ==
    {MkPacket(Ptr(TestHeader(t)), Ptr(EchoPayload)) : t \in TypeCodes}

\* header fields in and out of range
PacketsByHeader ==
    {MkPacket(Ptr(MkHeader(Ptr(f), Ptr(fra), Ptr(TestProtocolHeader(DeviceEchoResponse)))),
              Ptr(EchoPayload)) :
        f \in PacketFrames, fra \in PacketFrameAddresses}

\* a component left nil
PacketsAbsent ==
    {MkPacket(Nil, Ptr(EchoPayload)),
     MkPacket(Ptr(TestHeader(DeviceEchoResponse)), Nil),
     MkPacket(Ptr([TestHeader(DeviceEchoResponse) EXCEPT !.Frame = Nil]), Ptr(EchoPayload)),
     MkPacket(Ptr([TestHeader(DeviceEchoResponse) EXCEPT !.FrameAddress = Nil]),
              Ptr(EchoPayload)),
     MkPacket(Ptr([TestHeader(DeviceEchoResponse) EXCEPT !.ProtocolHeader = Nil]),
              Ptr(EchoPayload))}

\* payloads of a type of the caller's own, around the largest that fits
SizedPayloads ==
    {[type |-> "PacketComponent", len |-> n, err |-> e] :
        n \in {maxUint16 - HeaderByteSize, maxUint16 - HeaderByteSize + 1},
        e \in {NoErr, "payload error"}}

PacketsBySize ==
    {MkPacket(Ptr(MkHeader(Ptr(f), Ptr(TestFrameAddress),
                           Ptr(TestProtocolHeader(DeviceEchoResponse)))),
              Ptr(pl)) :
        f \in {[TestFrame EXCEPT !.Size = 7], [TestFrame EXCEPT !.Origin = 4]},
        pl \in SizedPayloads}

Packets ==
    PacketsByPayload \cup PacketsByType \cup PacketsByHeader \cup PacketsAbsent
    \cup PacketsBySize

\* the Packets a caller decodes into: a new one, and one used before
PacketTargets ==
    {ZeroPacket,
     MkPacket(Ptr(TestHeader(DeviceStatePower)),
              Ptr([type |-> "DeviceStatePower", Level |-> <<255, 255>>]))}

Init ==
    /\ order \in Orders
    /\ p \in Packets
    /\ p0 = p
    /\ q = ZeroPacket
    /\ q0 = q
    /\ data = <<>>
    /\ wire = <<>>
    /\ ret = NoRet
    /\ calls = <<>>
    /\ AddrIdle

CallPacketMarshalPacket ==
    /\ calls = <<>>
    /\ LET r == Packet_MarshalPacket(p, order)
       IN  /\ p' = r.obj
           /\ ret' = [op |-> "Packet.MarshalPacket", bytes |-> r.bytes, err |-> r.err]
    /\ calls' = Append(calls, "Packet.MarshalPacket")
    /\ UNCHANGED <<order, p0, q, q0, data, wire, addrVars>>

\* bytes.NewReader over the bytes just encoded, and the Packet to decode into
PacketNewReader ==
    /\ calls = <<"Packet.MarshalPacket">>
    /\ ret.err = NoErr
    /\ data' = ret.bytes
    /\ wire' = ret.bytes
    /\ q' \in PacketTargets
    /\ q0' = q'
    /\ calls' = Append(calls, "bytes.NewReader")
    /\ UNCHANGED <<order, p, p0, ret, addrVars>>

CallPacketUnmarshalPacket ==
    /\ calls = <<"Packet.MarshalPacket", "bytes.NewReader">>
    /\ LET r == Packet_UnmarshalPacket(q, data, order)
       IN  /\ q' = r.obj
           /\ data' = r.rest
           /\ ret' = [op |-> "Packet.UnmarshalPacket", bytes |-> <<>>, err |-> r.err]
    /\ calls' = Append(calls, "Packet.UnmarshalPacket")
    /\ UNCHANGED <<order, p, p0, q0, wire, addrVars>>

\* the caller encodes the same Packet a second time; wire keeps the bytes
\* of the first call
CallPacketMarshalPacketAgain ==
    /\ calls = <<"Packet.MarshalPacket">>
    /\ LET r == Packet_MarshalPacket(p, order)
       IN  /\ p' = r.obj
           /\ ret' = [op |-> "Packet.MarshalPacket", bytes |-> r.bytes, err |-> r.err]
    /\ wire' = ret.bytes
    /\ calls' = Append(calls, "Packet.MarshalPacket")
    /\ UNCHANGED <<order, p0, q, q0, data, addrVars>>

Next ==
    \/ CallPacketMarshalPacket
    \/ CallPacketMarshalPacketAgain
    \/ PacketNewReader
    \/ CallPacketUnmarshalPacket

Spec == Init /\ [][Next]_vars

\* the fields of the packet the caller built
HeaderOf(pk) == Deref(pk.Header)
FrameOf(pk) == Deref(HeaderOf(pk).Frame)
FrameAddressOf(pk) == Deref(HeaderOf(pk).FrameAddress)
ProtocolHeaderOf(pk) == Deref(HeaderOf(pk).ProtocolHeader)
PayloadOf(pk) == Deref(pk.Payload)

\* all parts present
Complete(pk) ==
    /\ pk.Header # Nil
    /\ pk.Payload # Nil
    /\ HeaderOf(pk).Frame # Nil
    /\ HeaderOf(pk).FrameAddress # Nil
    /\ HeaderOf(pk).ProtocolHeader # Nil

\* header fields within their bit widths
InRange(pk) ==
    /\ FrameOf(pk).Origin <= 3
    /\ FrameOf(pk).Protocol <= 4095
    /\ FrameAddressOf(pk).Reserved <= 63

\* C1: for a Packet with a complete, in-range Header and a Payload that
\* encodes to N bytes, Packet.MarshalPacket returns 36+N bytes whose first
\* two bytes, in the given byte order, are 36+N, and Header.Frame.Size is
\* 36+N afterwards whatever the caller had put there.
C1_PacketSize ==
    (/\ ret.op = "Packet.MarshalPacket"
     /\ Complete(p0)
     /\ InRange(p0)
     /\ Payload_MarshalPacket(PayloadOf(p0), order).err = NoErr) =>
        LET N == Len(Payload_MarshalPacket(PayloadOf(p0), order).bytes)
        IN  /\ ret.err = NoErr
            /\ Len(ret.bytes) = 36 + N
            /\ WordU16(GetWord(order, SubSeq(ret.bytes, 1, 2))) = 36 + N
            /\ FrameOf(p).Size = 36 + N

\* C1, for packets that fit: as above when 36+N <= 65535.
C1_PacketSizeFits ==
    (/\ ret.op = "Packet.MarshalPacket"
     /\ Complete(p0)
     /\ InRange(p0)
     /\ Payload_MarshalPacket(PayloadOf(p0), order).err = NoErr
     /\ 36 + Len(Payload_MarshalPacket(PayloadOf(p0), order).bytes) <= 65535) =>
        LET N == Len(Payload_MarshalPacket(PayloadOf(p0), order).bytes)
        IN  /\ ret.err = NoErr
            /\ Len(ret.bytes) = 36 + N
            /\ WordU16(GetWord(order, SubSeq(ret.bytes, 1, 2))) = 36 + N
            /\ FrameOf(p).Size = 36 + N

C1_Witness ==
    /\ ret.op = "Packet.MarshalPacket"
    /\ Complete(p0)
    /\ PayloadOf(p0) = EchoPayload
    /\ FrameOf(p0).Size = 7
    /\ InRange(p0)
    /\ Len(ret.bytes) = 100
    /\ FrameOf(p).Size = 100

\* C2: for a Packet whose header fields are in range, whose Target has six
\* bytes and whose type code is that of its payload's message,
\* Packet.UnmarshalPacket of the bytes of Packet.MarshalPacket yields an
\* equal header (Frame.Size = 36 + payload length) and an equal payload.
C2_PacketRoundTrip ==
    (/\ ret.op = "Packet.UnmarshalPacket"
     /\ Len(FrameAddressOf(p0).Target) = 6
     /\ MessagePayloadType(ProtocolHeaderOf(p0).Type) = PayloadOf(p0).type) =>
        /\ ret.err = NoErr
        /\ q.Header = p.Header
        /\ FrameOf(q).Size = Len(wire)
        /\ q.Payload = p.Payload

\* C3: for every type code with a registry entry, Packet.UnmarshalPacket
\* instantiates the payload type of that message, and the payload's fields
\* are the bytes that follow the header.
C3_Dispatch ==
    (ret.op = "Packet.UnmarshalPacket" /\ ret.err = NoErr) =>
        LET bs == Payload_MarshalPacket(PayloadOf(q), order).bytes
        IN  /\ PayloadOf(q).type = MessagePayloadType(ProtocolHeaderOf(q).Type)
            /\ bs = SubSeq(wire, 37, 36 + Len(bs))

\* C4: when the 36 header bytes carry a type code without a registry entry,
\* Packet.UnmarshalPacket returns the unknown-type error, the Packet's
\* Header is the decoded header and its Payload is as before the call.
C4_UnknownType ==
    (/\ ret.op = "Packet.UnmarshalPacket"
     /\ ProtocolHeaderOf(p0).Type \notin PayloadCodes) =>
        /\ ret.err = ErrUnknownMessageType
        /\ q.Header # Nil
        /\ ProtocolHeaderOf(q) = ProtocolHeaderOf(p)
        /\ FrameOf(q) = FrameOf(p)
        /\ Len(FrameAddressOf(p).Target) = 6 => FrameAddressOf(q) = FrameAddressOf(p)
        /\ q.Payload = q0.Payload

C4_Witness ==
    /\ ret.op = "Packet.UnmarshalPacket"
    /\ ProtocolHeaderOf(p0).Type = DeviceGetService
    /\ ret.err = ErrUnknownMessageType
    /\ q0.Payload # Nil
    /\ q.Payload = q0.Payload
    /\ q.Header = p.Header
    /\ q.Header # q0.Header

\* C15: when the Header, the Payload, or one of Header.Frame,
\* Header.FrameAddress and Header.ProtocolHeader is nil, Packet.MarshalPacket
\* returns a structural error and no bytes, without panicking and without
\* modifying the packet.
C15_PacketNil ==
    (ret.op = "Packet.MarshalPacket" /\ ~Complete(p0)) =>
        /\ ret.err \in {ErrPacketHeaderNil, ErrPacketPayloadNil, ErrHeaderNil}
        /\ ret.bytes = <<>>
        /\ p = p0

\* C16: with a complete, in-range Header and a payload that encodes to N
\* bytes, Packet.MarshalPacket fails with the size-overflow error and no
\* bytes exactly when 36 + N > 65535; otherwise the size field is 36 + N,
\* never a value truncated modulo 2^16.
C16_SizeOverflow ==
    (/\ ret.op = "Packet.MarshalPacket"
     /\ Complete(p0)
     /\ InRange(p0)
     /\ Payload_MarshalPacket(PayloadOf(p0), order).err = NoErr) =>
        LET N == Len(Payload_MarshalPacket(PayloadOf(p0), order).bytes)
        IN  IF 36 + N > 65535
            THEN ret.err = ErrPacketSizeOverflow /\ ret.bytes = <<>>
            ELSE /\ ret.err = NoErr
                 /\ FrameOf(p).Size = 36 + N
                 /\ WordU16(GetWord(order, SubSeq(ret.bytes, 1, 2))) = 36 + N

C16_Witness ==
    /\ ret.op = "Packet.MarshalPacket"
    /\ Complete(p0)
    /\ PayloadOf(p0).type = "PacketComponent"
    /\ PayloadOf(p0).len = 65499
    /\ ret.err = NoErr
    /\ Len(ret.bytes) = 65535
    /\ FrameOf(p).Size = 65535

\* C17: in Packet.MarshalPacket a payload encode error is returned before a
\* size overflow, and a size overflow before any header encode error; on
\* every failure the returned bytes are nil.
C17_FailureOrder ==
    (ret.op = "Packet.MarshalPacket" /\ p0.Header # Nil /\ p0.Payload # Nil) =>
        LET pay == Payload_MarshalPacket(PayloadOf(p0), order)
        IN  /\ (pay.err # NoErr => ret.err = pay.err)
            /\ ((pay.err = NoErr /\ 36 + Len(pay.bytes) > 65535) =>
                    ret.err = ErrPacketSizeOverflow)
            /\ (ret.err # NoErr => ret.bytes = <<>>)

C17_Witness ==
    /\ ret.op = "Packet.MarshalPacket"
    /\ Complete(p0)
    /\ FrameOf(p0).Origin = 4
    /\ PayloadOf(p0).type = "PacketComponent"
    /\ PayloadOf(p0).err = NoErr
    /\ PayloadOf(p0).len = 65500
    /\ ret.err = ErrPacketSizeOverflow
    /\ ret.bytes = <<>>

\* C18: LightSetColor and LightSetPower write a Duration of d whole
\* milliseconds, 0 <= d <= 2^32-1, as the uint32 d, and return the overflow
\* error and no bytes for a Duration above (2^32-1) milliseconds.
C18_DurationEncoding ==
    (/\ ret.op = "Packet.MarshalPacket"
     /\ Complete(p0)
     /\ InRange(p0)
     /\ PayloadOf(p0).type \in {"LightSetColor", "LightSetPower"}
     /\ (PayloadOf(p0).type = "LightSetColor" => PayloadOf(p0).Color # Nil)) =>
        LET d == PayloadOf(p0).Duration
            n == Len(ret.bytes)
            over == ~d.neg /\ (d.hi > 65535 \/ (d.hi = 65535 /\ d.lo = 65535 /\ d.ns > 0))
            wholeMs == ~d.neg /\ d.ns = 0 /\ d.hi <= 65535
        IN  /\ (over =>
                    /\ ret.err = IF PayloadOf(p0).type = "LightSetColor"
                                 THEN "LightSetColor.Duration would overflow uint32"
                                 ELSE "LightSetPower.Duration would overflow uint32"
                    /\ ret.bytes = <<>>)
            /\ (wholeMs =>
                    /\ ret.err = NoErr
                    /\ GetWord(order, SubSeq(ret.bytes, n - 3, n)) =
                         <<d.hi \div 256, d.hi % 256, d.lo \div 256, d.lo % 256>>)

C18_Witness ==
    /\ ret.op = "Packet.MarshalPacket"
    /\ Complete(p0)
    /\ PayloadOf(p0).type = "LightSetColor"
    /\ PayloadOf(p0).Duration = [neg |-> FALSE, hi |-> 0, lo |-> 42, ns |-> 0]
    /\ order = LittleEndian
    /\ ret.err = NoErr
    /\ SubSeq(ret.bytes, Len(ret.bytes) - 3, Len(ret.bytes)) = <<42, 0, 0, 0>>

\* C20: Packet.MarshalPacket changes nothing of the Packet except
\* Header.Frame.Size (the Header's other parts and the Payload are as the
\* caller built them), and encoding the same Packet twice returns the same
\* bytes.
C20_EncodeEffect ==
    ret.op = "Packet.MarshalPacket" =>
        /\ p.Payload = p0.Payload
        /\ (p.Header = Nil) = (p0.Header = Nil)
        /\ (p0.Header # Nil =>
                /\ HeaderOf(p).FrameAddress = HeaderOf(p0).FrameAddress
                /\ HeaderOf(p).ProtocolHeader = HeaderOf(p0).ProtocolHeader
                /\ (HeaderOf(p).Frame = Nil) = (HeaderOf(p0).Frame = Nil)
                /\ (HeaderOf(p0).Frame # Nil =>
                        [FrameOf(p) EXCEPT !.Size = 0] = [FrameOf(p0) EXCEPT !.Size = 0]))
        /\ (Len(calls) = 2 => ret.bytes = wire)

C20_Witness ==
    /\ calls = <<"Packet.MarshalPacket", "Packet.MarshalPacket">>
    /\ Complete(p0)
    /\ PayloadOf(p0) = EchoPayload
    /\ FrameOf(p0).Size = 7
    /\ FrameOf(p).Size = 100
    /\ ret.err = NoErr
    /\ Len(ret.bytes) = 100
    /\ ret.bytes = wire

----------------------------------------------------------------------------
(* SpecStream: packets and bytes written to one stream, a reader over the  *)
(* part of the stream that arrived, and decode calls on that reader.       *)
(* p0 holds the packets as their sender built them, p the same packets     *)
(* after Packet.MarshalPacket, wire the bytes the reader was created over, *)
(* data the bytes not read yet, q0 and q the object of the last decode     *)
(* call before and after the call.                                         *)

\* the most writes to one stream
MaxWrites == 2
\* the longest stream
MaxStreamLen == 130
\* the stream ends after any number of bytes up to MaxCut, or is whole
MaxCut == 92
\* the most Packet.UnmarshalPacket calls on one reader
MaxDecodes == 2

StreamPackets ==
    {MkPacket(Ptr(TestHeader(DeviceStatePower)),
              Ptr(SampleFields(ZeroPayload("DeviceStatePower"),
                               PayloadFields("DeviceStatePower"), 1, 1))),
     MkPacket(Ptr(TestHeader(LightSetColor)),
              Ptr([type |-> "LightSetColor", Reserved |-> <<6>>,
                   Color |-> Ptr(SampleHSBK(6)),
                   Duration |-> [neg |-> FALSE, hi |-> 18, lo |-> 54321, ns |-> 0]])),
     MkPacket(Ptr(TestHeader(DeviceStateLocation)),
              Ptr(SampleFields(ZeroPayload("DeviceStateLocation"),
                               PayloadFields("DeviceStateLocation"), 1, 1)))}

\* bytes a peer writes that no encoder of this package produced
RawChunks == {[i \in 1..HeaderByteSize |-> 255]}

\* no reader has been created yet
Writing == \A i \in DOMAIN calls : calls[i] \in {"Packet.MarshalPacket", "Write"}

\* the number of Packet.UnmarshalPacket calls made on the reader
Decodes == Cardinality({i \in DOMAIN calls : calls[i] = "Packet.UnmarshalPacket"})

\* the last call is the first one on its reader
FirstOnReader == Len(calls) >= 2 /\ calls[Len(calls) - 1] = "bytes.NewReader"

InitStream ==
    /\ order \in Orders
    /\ p = <<>>
    /\ p0 = <<>>
    /\ q = ZeroPacket
    /\ q0 = q
    /\ data = <<>>
    /\ wire = <<>>
    /\ ret = NoRet
    /\ calls = <<>>
    /\ AddrIdle

\* the sender encodes a packet and writes the bytes to the stream
StreamWritePacket ==
    /\ Writing
    /\ Len(calls) < MaxWrites
    /\ \E pk \in StreamPackets :
          LET r == Packet_MarshalPacket(pk, order)
          IN  /\ r.err = NoErr
              /\ Len(wire) + Len(r.bytes) <= MaxStreamLen
              /\ p0' = Append(p0, pk)
              /\ p' = Append(p, r.obj)
              /\ wire' = wire \o r.bytes
              /\ ret' = [op |-> "Packet.MarshalPacket", bytes |-> r.bytes, err |-> r.err]
    /\ calls' = Append(calls, "Packet.MarshalPacket")
    /\ UNCHANGED <<order, q, q0, data, addrVars>>

\* a peer writes bytes of its own to the stream
StreamWriteBytes ==
    /\ Writing
    /\ Len(calls) < MaxWrites
    /\ \E bs \in RawChunks :
          /\ Len(wire) + Len(bs) <= MaxStreamLen
          /\ wire' = wire \o bs
    /\ ret' = [op |-> "Write", bytes |-> <<>>, err |-> NoErr]
    /\ calls' = Append(calls, "Write")
    /\ UNCHANGED <<order, p, p0, q, q0, data, addrVars>>

\* a reader over the bytes that arrived: the whole stream, or a truncated one
StreamNewReader ==
    /\ Writing
    /\ \E n \in 0..Len(wire) :
          /\ n <= MaxCut \/ n = Len(wire)
          /\ wire' = SubSeq(wire, 1, n)
          /\ data' = SubSeq(wire, 1, n)
    /\ ret' = [op |-> "bytes.NewReader", bytes |-> <<>>, err |-> NoErr]
    /\ calls' = Append(calls, "bytes.NewReader")
    /\ UNCHANGED <<order, p, p0, q, q0, addrVars>>

StreamFrameUnmarshalPacket ==
    /\ calls # <<>> /\ calls[Len(calls)] = "bytes.NewReader"
    /\ LET r == Frame_UnmarshalPacket(Ptr(ZeroFrame), data, order)
       IN  /\ q0' = Ptr(ZeroFrame)
           /\ q' = r.obj
           /\ data' = r.rest
           /\ ret' = [op |-> "Frame.UnmarshalPacket", bytes |-> <<>>, err |-> r.err]
    /\ calls' = Append(calls, "Frame.UnmarshalPacket")
    /\ UNCHANGED <<order, p, p0, wire, addrVars>>

StreamFrameAddressUnmarshalPacket ==
    /\ calls # <<>> /\ calls[Len(calls)] = "bytes.NewReader"
    /\ LET r == FrameAddress_UnmarshalPacket(Ptr(ZeroFrameAddress), data, order)
       IN  /\ q0' = Ptr(ZeroFrameAddress)
           /\ q' = r.obj
           /\ data' = r.rest
           /\ ret' = [op |-> "FrameAddress.UnmarshalPacket", bytes |-> <<>>, err |-> r.err]
    /\ calls' = Append(calls, "FrameAddress.UnmarshalPacket")
    /\ UNCHANGED <<order, p, p0, wire, addrVars>>

StreamProtocolHeaderUnmarshalPacket ==
    /\ calls # <<>> /\ calls[Len(calls)] = "bytes.NewReader"
    /\ LET r == ProtocolHeader_UnmarshalPacket(Ptr(ZeroProtocolHeader), data, order)
       IN  /\ q0' = Ptr(ZeroProtocolHeader)
           /\ q' = r.obj
           /\ data' = r.rest
           /\ ret' = [op |-> "ProtocolHeader.UnmarshalPacket", bytes |-> <<>>,
                      err |-> r.err]
    /\ calls' = Append(calls, "ProtocolHeader.UnmarshalPacket")
    /\ UNCHANGED <<order, p, p0, wire, addrVars>>

StreamHeaderUnmarshalPacket ==
    /\ calls # <<>> /\ calls[Len(calls)] = "bytes.NewReader"
    /\ LET r == Header_UnmarshalPacket(FreshHeader, data, order)
       IN  /\ q0' = Ptr(FreshHeader)
           /\ q' = Ptr(r.obj)
           /\ data' = r.rest
           /\ ret' = [op |-> "Header.UnmarshalPacket", bytes |-> <<>>, err |-> r.err]
    /\ calls' = Append(calls, "Header.UnmarshalPacket")
    /\ UNCHANGED <<order, p, p0, wire, addrVars>>

\* Packet.UnmarshalPacket into a new Packet, into one used before, or, after
\* a successful call, into the Packet of that call
StreamPacketUnmarshalPacket ==
    /\ calls # <<>>
    /\ \/ calls[Len(calls)] = "bytes.NewReader"
       \/ /\ calls[Len(calls)] = "Packet.UnmarshalPacket"
          /\ ret.err = NoErr
          /\ Decodes < MaxDecodes
    /\ \E t \in PacketTargets \cup (IF Decodes > 0 THEN {q} ELSE {}) :
          LET r == Packet_UnmarshalPacket(t, data, order)
          IN  /\ q0' = t
              /\ q' = r.obj
              /\ data' = r.rest
              /\ ret' = [op |-> "Packet.UnmarshalPacket", bytes |-> <<>>, err |-> r.err]
    /\ calls' = Append(calls, "Packet.UnmarshalPacket")
    /\ UNCHANGED <<order, p, p0, wire, addrVars>>

NextStream ==
    \/ StreamWritePacket
    \/ StreamWriteBytes
    \/ StreamNewReader
    \/ StreamFrameUnmarshalPacket
    \/ StreamFrameAddressUnmarshalPacket
    \/ StreamProtocolHeaderUnmarshalPacket
    \/ StreamHeaderUnmarshalPacket
    \/ StreamPacketUnmarshalPacket

SpecStream == InitStream /\ [][NextStream]_vars

\* the errors of a read from a stream that has ended
IOErrors == {"EOF", "unexpected EOF"}

\* the number of bytes the decoder of a payload reads
PayloadByteSize(pl) ==
    Len(Payload_MarshalPacket(IF "Color" \in DOMAIN pl
                              THEN [pl EXCEPT !.Color = Ptr(ZeroPayload("LightHSBK"))]
                              ELSE pl,
                              BigEndian).bytes)

\* the registry entry for the type code in the first 36 bytes of bs
Dispatched(bs, ord) ==
    packetComponentByType(
        Deref(Header_UnmarshalPacket(FreshHeader, bs, ord).obj.ProtocolHeader).Type)

\* C21: Frame, FrameAddress, ProtocolHeader, Header and Packet
\* UnmarshalPacket return an I/O error whenever the stream ends before the
\* 8, 16, 12, 36, and 36 plus the dispatched payload's length bytes of the
\* structure; none of them succeeds on a truncated stream.
C21_TruncatedInput ==
    FirstOnReader =>
        LET n == Len(wire)
            need == CASE ret.op = "Frame.UnmarshalPacket" -> 8
                      [] ret.op = "FrameAddress.UnmarshalPacket" -> 16
                      [] ret.op = "ProtocolHeader.UnmarshalPacket" -> 12
                      [] ret.op = "Header.UnmarshalPacket" -> 36
                      [] ret.op = "Packet.UnmarshalPacket" ->
                            IF n < 36 \/ Dispatched(wire, order) = Nil
                            THEN 36
                            ELSE 36 + PayloadByteSize(Deref(Dispatched(wire, order)))
        IN  n < need => ret.err \in IOErrors

C21_Witness ==
    /\ FirstOnReader
    /\ ret.op = "Packet.UnmarshalPacket"
    /\ Len(wire) = 40
    /\ Len(p) = 1
    /\ PayloadOf(p[1]).type = "LightSetColor"
    /\ q.Header # Nil
    /\ ProtocolHeaderOf(q).Type = LightSetColor
    /\ ret.err = "unexpected EOF"

\* C22: after every successful Frame.UnmarshalPacket origin <= 3 and
\* protocol <= 4095, and after every successful FrameAddress.UnmarshalPacket
\* reserved <= 63 and Target has exactly 6 bytes, whatever the bytes read;
\* re-encoding a header that was just decoded never fails.
C22_DecodedInRange ==
    ret.err = NoErr =>
        /\ (ret.op = "Frame.UnmarshalPacket" =>
                /\ Deref(q).Origin <= 3
                /\ Deref(q).Protocol <= 4095
                /\ Frame_MarshalPacket(Deref(q), order).err = NoErr)
        /\ (ret.op = "FrameAddress.UnmarshalPacket" =>
                /\ Deref(q).Reserved <= 63
                /\ Len(Deref(q).Target) = 6
                /\ FrameAddress_MarshalPacket(Deref(q), order).err = NoErr)
        /\ (ret.op = "Header.UnmarshalPacket" =>
                /\ Deref(Deref(q).Frame).Origin <= 3
                /\ Deref(Deref(q).Frame).Protocol <= 4095
                /\ Deref(Deref(q).FrameAddress).Reserved <= 63
                /\ Len(Deref(Deref(q).FrameAddress).Target) = 6
                /\ Header_MarshalPacket(Deref(q), order).err = NoErr)
        /\ (ret.op = "Packet.UnmarshalPacket" =>
                /\ FrameOf(q).Origin <= 3
                /\ FrameOf(q).Protocol <= 4095
                /\ FrameAddressOf(q).Reserved <= 63
                /\ Len(FrameAddressOf(q).Target) = 6
                /\ Header_MarshalPacket(HeaderOf(q), order).err = NoErr)

C22_Witness ==
    /\ ret.op = "Header.UnmarshalPacket"
    /\ ret.err = NoErr
    /\ calls[1] = "Write"
    /\ Deref(Deref(q).Frame).Origin = 3
    /\ Deref(Deref(q).Frame).Protocol = 4095
    /\ Deref(Deref(q).FrameAddress).Reserved = 63
    /\ Deref(Deref(q).FrameAddress).Target = <<255, 255, 255, 255, 255, 255>>
    /\ Header_MarshalPacket(Deref(q), order).err = NoErr

\* C23: a successful Header.UnmarshalPacket consumes exactly 36 bytes and a
\* successful Packet.UnmarshalPacket exactly 36 bytes plus the length of the
\* dispatched payload type, nothing beyond; so two decodes from a stream
\* that holds the encoding of packet p1 followed by the encoding of packet
\* p2 yield p1 and then p2.
C23_StreamConsumption ==
    /\ (FirstOnReader /\ ret.op = "Header.UnmarshalPacket" /\ ret.err = NoErr) =>
            data = SubSeq(wire, 37, Len(wire))
    /\ (FirstOnReader /\ ret.op = "Packet.UnmarshalPacket" /\ ret.err = NoErr) =>
            data = SubSeq(wire, 37 + PayloadByteSize(PayloadOf(q)), Len(wire))
    /\ (/\ ret.op = "Packet.UnmarshalPacket"
        /\ Len(p) = 2
        /\ calls[1] = "Packet.MarshalPacket"
        /\ calls[2] = "Packet.MarshalPacket"
        /\ Len(wire) = FrameOf(p[1]).Size + FrameOf(p[2]).Size) =>
            /\ ret.err = NoErr
            /\ q.Header = p[Decodes].Header
            /\ q.Payload = p[Decodes].Payload

\* C26: when Packet.UnmarshalPacket fails while decoding the header, the
\* Packet's Header and Payload are as before the call; when the header
\* decodes and the payload step fails (unknown type or short payload),
\* Header is the newly decoded header and Payload is as before the call.
C26_FailedDecode ==
    (ret.op = "Packet.UnmarshalPacket" /\ ret.err # NoErr) =>
        /\ q.Payload = q0.Payload
        /\ (FirstOnReader =>
                IF Len(wire) < 36
                THEN q.Header = q0.Header
                ELSE q.Header = Ptr(Header_UnmarshalPacket(FreshHeader, wire, order).obj))

C26_Witness ==
    /\ FirstOnReader
    /\ ret.op = "Packet.UnmarshalPacket"
    /\ ret.err = "EOF"
    /\ Len(wire) = 36
    /\ calls[1] = "Packet.MarshalPacket"
    /\ q0.Payload # Nil
    /\ q.Payload = q0.Payload
    /\ q.Header # Nil
    /\ q.Header # q0.Header
    /\ ProtocolHeaderOf(q).Type = DeviceStateLocation

----------------------------------------------------------------------------
(* Spec: the registry's domain, and the packet after a failed encode *)

\* the type codes with a case in packetComponentByType
RegisteredCodes ==
    {3, 13, 15, 17, 19, 21, 22, 24, 25, 33, 35, 50, 53, 58, 59, 102, 107, 117, 118}

\* C24: given a complete header and enough payload bytes,
\* Packet.UnmarshalPacket returns the unknown-type error exactly for the type
\* codes outside the 19 registered ones; the payload-less messages, which
\* the name table names, cannot be decoded as packets.
C24_RegistryDomain ==
    ret.op = "Packet.UnmarshalPacket" =>
        LET t == ProtocolHeaderOf(p0).Type
        IN  /\ (ret.err = ErrUnknownMessageType) <=> (t \notin RegisteredCodes)
            /\ (t \in RegisteredCodes => ret.err = NoErr)
            /\ (t \in GetCodes =>
                    /\ phTypetoString(t) # "UnknownType"
                    /\ ret.err = ErrUnknownMessageType)

C24_Witness ==
    /\ ret.op = "Packet.UnmarshalPacket"
    /\ ProtocolHeaderOf(p0).Type = LightGet
    /\ phTypetoString(LightGet) = "lifxprotocol.LightGet"
    /\ Len(wire) = 100
    /\ ret.err = ErrUnknownMessageType

----------------------------------------------------------------------------
(* SpecConcurrent: two Packet.MarshalPacket calls running concurrently on   *)
(* two Packets whose Headers hold the same *Frame.  p is that Frame, q[i]   *)
(* the Packet and the local variables of call i.  The calls are not         *)
(* synchronized: the store to Frame.Size of one call and the load in        *)
(* Frame.MarshalPacket of the other race, and every order of the two is an  *)
(* outcome.                                                                 *)

\* the two calls
Calls == {1, 2}

\* payloads of three lengths: 2, 6 and 64 bytes
ConcPayloads ==
    {SampleFields(ZeroPayload("DeviceStatePower"), PayloadFields("DeviceStatePower"), 1, 1),
     [type |-> "LightSetPower", Level |-> <<255, 255>>,
      Duration |-> [neg |-> FALSE, hi |-> 0, lo |-> 42, ns |-> 0]],
     EchoPayload}

\* the message code a sender puts in front of a payload
CodeOf(pl) ==
    CASE pl.type = "DeviceStatePower" -> DeviceStatePower
      [] pl.type = "LightSetPower" -> LightSetPower
      [] pl.type = "DeviceEcho" -> DeviceEchoResponse

\* call i before its first step: its Packet, and its locals unset
NewCall(fra, ph, pl) ==
    [pc |-> "start", FrameAddress |-> fra, ProtocolHeader |-> ph, Payload |-> Ptr(pl),
     payload |-> <<>>, tbs |-> 0, bytes |-> <<>>, err |-> NoErr]

\* the Header of call i's Packet: the shared Frame and the call's own parts
ConcHeader(i) == MkHeader(p, q[i].FrameAddress, q[i].ProtocolHeader)

\* the two Packets share one Header, or two Headers share one Frame
InitConcurrent ==
    /\ order \in Orders
    /\ p \in {Ptr(TestFrame), Ptr([TestFrame EXCEPT !.Size = 7])}
    /\ p0 = p
    /\ \E pl1 \in ConcPayloads, pl2 \in ConcPayloads, own \in BOOLEAN :
          /\ pl1 # pl2
          /\ q = << NewCall(Ptr(TestFrameAddress), Ptr(TestProtocolHeader(CodeOf(pl1))), pl1),
                    NewCall(Ptr(TestFrameAddress),
                            Ptr(TestProtocolHeader(CodeOf(IF own THEN pl2 ELSE pl1))), pl2) >>
    /\ q0 = q
    /\ data = <<>>
    /\ wire = <<>>
    /\ ret = NoRet
    /\ calls = <<>>
    /\ AddrIdle

\* call i encodes its payload and computes the total byte size
ConcMarshalPayload(i) ==
    /\ q[i].pc = "start"
    /\ LET payload == Payload_MarshalPacket(Deref(q[i].Payload), order)
           tbs == Packet_tbs(payload.bytes)
       IN  IF payload.err # NoErr
           THEN q' = [q EXCEPT ![i].pc = "done", ![i].err = payload.err]
           ELSE IF tbs > maxUint16
           THEN q' = [q EXCEPT ![i].pc = "done", ![i].err = ErrPacketSizeOverflow]
           ELSE q' = [q EXCEPT ![i].pc = "encoded", ![i].payload = payload.bytes,
                               ![i].tbs = tbs]
    /\ calls' = Append(calls, <<i, "Payload.MarshalPacket">>)
    /\ UNCHANGED <<order, p, p0, q0, data, wire, ret, addrVars>>

\* call i stores the size: p.Header.Frame.Size = uint16(tbs)
ConcSetSize(i) ==
    /\ q[i].pc = "encoded"
    /\ p' = Packet_sized(ConcHeader(i), q[i].tbs).Frame
    /\ q' = [q EXCEPT ![i].pc = "sized"]
    /\ calls' = Append(calls, <<i, "Frame.Size = uint16(tbs)">>)
    /\ UNCHANGED <<order, p0, q0, data, wire, ret, addrVars>>

\* call i encodes the Header, which loads Frame.Size, and returns the packet
ConcMarshalHeader(i) ==
    /\ q[i].pc = "sized"
    /\ LET header == Header_MarshalPacket(ConcHeader(i), order)
           bytes == IF header.err # NoErr THEN <<>> ELSE header.bytes \o q[i].payload
       IN  /\ q' = [q EXCEPT ![i].pc = "done", ![i].bytes = bytes, ![i].err = header.err]
           /\ ret' = [op |-> "Packet.MarshalPacket", bytes |-> bytes, err |-> header.err]
    /\ calls' = Append(calls, <<i, "Header.MarshalPacket">>)
    /\ UNCHANGED <<order, p, p0, q0, data, wire, addrVars>>

NextConcurrent ==
    \E i \in Calls :
        \/ ConcMarshalPayload(i)
        \/ ConcSetSize(i)
        \/ ConcMarshalHeader(i)

SpecConcurrent == InitConcurrent /\ [][NextConcurrent]_vars

\* C25: when the steps of two Packet.MarshalPacket calls on Packets that
\* share a Header or a Frame and carry payloads of different lengths
\* interleave, the first two bytes each call returns are still that call's
\* own total length, 36 + len(its payload).
C25_InterleavedEncodes ==
    \A i \in Calls :
        (q[i].pc = "done" /\ q[i].err = NoErr) =>
            /\ Len(q[i].bytes) = 36 + Len(q[i].payload)
            /\ WordU16(GetWord(order, SubSeq(q[i].bytes, 1, 2))) = 36 + Len(q[i].payload)

\* C27: whenever Packet.MarshalPacket returns an error (payload error, size
\* overflow, or a header error such as origin, protocol or reserved
\* overflow), every field of the Packet, Header.Frame.Size included, has the
\* value it had before the call.
C27_FailedEncode ==
    (ret.op = "Packet.MarshalPacket" /\ Complete(p0) /\ ret.err # NoErr) =>
        /\ p = p0
        /\ FrameOf(p).Size = FrameOf(p0).Size

\* the Duration truncated to whole milliseconds
DurationTruncate(d) ==
    IF d.hi = 0 /\ d.lo = 0 THEN ZeroDuration ELSE [d EXCEPT !.ns = 0]

\* C28: for every Duration, negative ones included, LightSetColor.MarshalPacket
\* and LightSetPower.MarshalPacket either return an error or write the
\* uint32 count of whole milliseconds of the Duration, so that decoding the
\* bytes gives back the Duration truncated to milliseconds.
C28_NoWrappedDuration ==
    (/\ ret.op = "Packet.MarshalPacket"
     /\ Complete(p0)
     /\ InRange(p0)
     /\ PayloadOf(p0).type \in {"LightSetColor", "LightSetPower"}
     /\ ret.err = NoErr) =>
        LET d == PayloadOf(p0).Duration
            n == Len(ret.bytes)
            written == GetWord(order, SubSeq(ret.bytes, n - 3, n))
        IN  /\ (d.neg => (d.hi = 0 /\ d.lo = 0))
            /\ d.hi <= 65535
            /\ written = <<d.hi \div 256, d.hi % 256, d.lo \div 256, d.lo % 256>>
            /\ msToDur(written) = DurationTruncate(d)

----------------------------------------------------------------------------
(* SpecHeader: Header.UnmarshalPacket into a Header with an absent part *)

\* C29: whenever Header.UnmarshalPacket returns no error, Header.Frame,
\* Header.FrameAddress and Header.ProtocolHeader are all non-nil and hold
\* the values decoded from the 36 bytes read; a Header that enters the call
\* with an absent part produces an error, neither a silent success nor a
\* panic.
C29_HeaderDecodeParts ==
    ret.op = "Header.UnmarshalPacket" =>
        LET absent == \/ Deref(q0).Frame = Nil
                      \/ Deref(q0).FrameAddress = Nil
                      \/ Deref(q0).ProtocolHeader = Nil
        IN  /\ ret.err # "panic"
            /\ (absent => ret.err # NoErr)
            /\ (ret.err = NoErr =>
                    /\ Deref(q).Frame # Nil
                    /\ Deref(q).FrameAddress # Nil
                    /\ Deref(q).ProtocolHeader # Nil
                    /\ Deref(q) = Header_UnmarshalPacket(FreshHeader, wire, order).obj)

====
